---- MODULE Spec2Model ----
(***************************************************************************)
(* The network connection store of the Xorion explorer                     *)
(* (src/unnamed/part_001, the zustand store usePolkadotStore and the       *)
(* module-level connection helpers).                                       *)
(*                                                                         *)
(* The program runs on a JavaScript event loop.  A handler runs to its     *)
(* first effective await without interruption; what follows an await is a  *)
(* continuation.  Two kinds of await occur in the connection code:         *)
(*   - `await cleanupConnection()` (lines 305, 373, 385): the body of      *)
(*     cleanupConnection never suspends, because currentApi is never       *)
(*     assigned and the guard of line 652 is always false; the caller      *)
(*     resumes in a microtask, queued first-in first-out in microQ, before *)
(*     any timer, socket event or network completion is delivered;         *)
(*   - awaits of a network round trip (lines 330-341, 712): the caller     *)
(*     resumes when the chain client answers, an event of its own.         *)
(* Callers of the store (UI handlers and effects) run in tasks and may     *)
(* invoke several operations back to back in one task.                     *)
(*                                                                         *)
(* The chain client library is a black box: a provider that the code has   *)
(* created and not yet disconnected may emit its connected / disconnected  *)
(* / error events at any time; a provider the code has disconnected still  *)
(* has its listeners (eventListeners is never filled, so line 648 removes  *)
(* none) and reports the closing of its socket; a request on a             *)
(* disconnected provider never succeeds.                                   *)
(***************************************************************************)
EXTENDS Integers, Sequences, FiniteSets, TLC

\* ---------------------------------------------------------------- bounds
NumEndpoints == 2     \* entries of the configured endpoint list
MaxCalls == 2         \* connect() calls in flight at once
MaxProbes == 1        \* health-check probes in flight at once
MaxClosing == 1       \* torn-down providers whose socket close is still to be reported
MaxAttempts == 3      \* the caller invokes connect() only while connectionAttempts is below

\* ------------------------------------------------------ program constants
MAX_RETRIES == 5
INITIAL_RETRY_DELAY == 2000
MAX_RETRY_DELAY == 30000
MAX_LATENCY == 1000

\* ENDPOINTS[k] for the JavaScript index k in 0..NumEndpoints-1 is endpoint k+1
ENDPOINTS == [k \in 1..NumEndpoints |-> k]
NoEndpoint == 0
Null == 0

Calls == 1..MaxCalls
Probes == 1..MaxProbes
Providers == 1..(MaxCalls + 1)
\* every reference to a provider that cleanupConnection has disconnected: the code
\* never compares such references, it only uses them
Closed == -1
Latencies == {MAX_LATENCY, MAX_LATENCY + 1}

DEFAULT_METRICS == "DEFAULT_METRICS"
FetchedMetrics == "metrics"

\* transactionData: as created (lastUpdated 0), as fetchEnhancedTransactionData
\* returns it with blocks, and with no block at all
InitialTransactions == "initial"
FetchedTransactions == "fetched"
NoTransactions == "empty"

NoError == "null"

\* transactionDetails: null as created, line 239
NoDetails == [isDecoded |-> FALSE]

\* the fetchTransactionDetails calls that may be running at once
MaxLookups == 2
Lookups == 1..MaxLookups
IdleLookup == [pc |-> "idle", hash |-> <<>>, live |-> FALSE, failureCount |-> 0]

\* the wallet panel (src/src/components/LandingHero.tsx): the accounts of the
\* wallet, and the AbortControllers the balance effect may create
MaxAccounts == 2
MaxControllers == 2
Accounts == 1..MaxAccounts
Controllers == 1..MaxControllers
NoBalance == "null"
NoEntry == [balance |-> NoBalance, fresh |-> FALSE]
NoQuery == [pc |-> "none", account |-> Null, aborted |-> FALSE, live |-> FALSE,
            answer |-> NoBalance]
NotRun == [deps |-> <<>>, cleanup |-> FALSE]
ErrMessage == "error.message"
AllFailed == "All endpoints failed"

Min2(a, b) == IF a < b THEN a ELSE b

VARIABLES
  apiState,             \* [status, lastError, latency, connectionAttempts, endpoint]
  api,                  \* the store's api: the provider its client was created over, or Null
  isLoading,
  isFetching,           \* TRUE while fetchNetworkData awaits its query
  networkMetrics,       \* the store's networkMetrics: the default or a fetched result
  queryApi,             \* the api handle the running "networkData" query uses, or Null
  transactionData,      \* the store's transactionData: initial, a fetched result or emptied
  isTransactionLoading,
  isTransactionFetching,
  txApi,                \* the api handle the running "transactionData" query uses, or Null
  superseded,           \* history: the running queries whose handle was torn down since
  transactionDetails,   \* the store's transactionDetails: a found record or none
  isDetailsLoading,
  detailsError,         \* the store's detailsError: a message or NoError
  lookups,              \* fetchTransactionDetails calls: [pc, hash, live, failureCount]
  selectedAccount,      \* WalletProvider state: the selected account or Null
  balance,              \* WalletProvider state: the balance shown, or NoBalance
  modalOpen,            \* WalletConnection state
  mounted,              \* TRUE while the WalletConnection component is mounted
  balanceCache,         \* balanceCache.current: per account [balance, fresh]
  balanceAbortControllerRef, \* the ref's current controller, or Null
  effect,               \* the last run of the balance effect: [deps, cleanup]
  balanceQueries,       \* per controller, its query: [pc, account, aborted, live, answer]
  supersededQueries,    \* history: the queries whose effect run React has replaced
  chain,                \* what the chain answers to the queries of one fetch
  fetched,              \* what that fetch returns
  currentProvider,      \* module variable: provider id or Null
  healthCheckInterval,  \* module variable: TRUE while the interval is set
  reconnectTimeout,     \* module variable: TRUE while a reconnect timer is pending
  currentEndpointIndex,
  retryDelay,
  intervals,            \* runtime: health-check intervals set and not cleared
  timers,               \* runtime: reconnect timers set, not cleared and not yet fired
  provOpen,             \* providers created by connect() and not yet disconnected
  closing,              \* disconnected providers whose socket close is not yet reported
  calls,                \* connect() calls: [pc, ep, start, i, prov, tried]
  probes,               \* health-check ticks awaiting their probe: [pc, api, snap]
  rc,                   \* the reconnect() call: [pc, ep]
  microQ,               \* microtask queue
  sync,                 \* TRUE while the task that queued microQ's entries still runs
  lastArmed             \* history: the delay of the last timer armed since the last success

vars == <<apiState, api, isLoading, isFetching, networkMetrics, queryApi,
          transactionData, isTransactionLoading, isTransactionFetching, txApi,
          superseded, transactionDetails, isDetailsLoading, detailsError, lookups,
          selectedAccount, balance, modalOpen, mounted, balanceCache,
          balanceAbortControllerRef, effect, balanceQueries, supersededQueries,
          chain, fetched,
          currentProvider, healthCheckInterval, reconnectTimeout,
          currentEndpointIndex, retryDelay, intervals, timers,
          provOpen, closing, calls, probes, rc, microQ, sync, lastArmed>>

status == apiState.status

\* the chain's answers and the value computed from them
chainVars == <<chain, fetched>>

\* the store's state and the module variables
storeVars ==
  <<apiState, api, isLoading, isFetching, networkMetrics, queryApi, transactionData,
    isTransactionLoading, isTransactionFetching, txApi, superseded,
    transactionDetails, isDetailsLoading, detailsError, lookups, selectedAccount,
    balance, modalOpen, mounted, balanceCache, balanceAbortControllerRef, effect,
    balanceQueries, supersededQueries, currentProvider,
    healthCheckInterval, reconnectTimeout, currentEndpointIndex, retryDelay,
    intervals, timers, provOpen, closing, calls, probes, rc, microQ, sync, lastArmed>>

\* what fetchTransactionData writes
txState == <<transactionData, isTransactionLoading, isTransactionFetching>>

\* what fetchTransactionDetails writes, and with the calls that write it
detailsState == <<transactionDetails, isDetailsLoading, detailsError>>
detailVars == <<detailsState, lookups>>

\* the wallet panel: what its balance effect reads and writes, and with the
\* queries the effect has started
walletState ==
  <<selectedAccount, balance, modalOpen, mounted, balanceCache,
    balanceAbortControllerRef, effect, supersededQueries>>
walletVars == <<walletState, balanceQueries>>

IdleCall == [pc |-> "idle", ep |-> NoEndpoint, start |-> 0, i |-> 0, prov |-> Null,
             tried |-> <<>>]
IdleProbe == [pc |-> "idle", api |-> Null, snap |-> "disconnected"]
IdleRc == [pc |-> "idle", ep |-> NoEndpoint]

InitialApiState ==
  [status |-> "disconnected", lastError |-> NoError, latency |-> Null,
   connectionAttempts |-> 0, endpoint |-> NoEndpoint]

\* the panel as mounted, before its effects have run
WalletCreated ==
  /\ selectedAccount = Null
  /\ balance = NoBalance
  /\ modalOpen = FALSE
  /\ mounted = TRUE
  /\ balanceCache = [a \in Accounts |-> NoEntry]
  /\ balanceAbortControllerRef = Null
  /\ effect = NotRun
  /\ balanceQueries = [c \in Controllers |-> NoQuery]
  /\ supersededQueries = {}

\* the store and the module variables as created, lines 207-246
StoreCreated ==
  /\ apiState = InitialApiState
  /\ api = Null
  /\ isLoading = TRUE
  /\ isFetching = FALSE
  /\ networkMetrics = DEFAULT_METRICS
  /\ queryApi = Null
  /\ transactionData = InitialTransactions
  /\ isTransactionLoading = TRUE
  /\ isTransactionFetching = FALSE
  /\ txApi = Null
  /\ superseded = {}
  /\ transactionDetails = NoDetails
  /\ isDetailsLoading = TRUE
  /\ detailsError = NoError
  /\ lookups = [l \in Lookups |-> IdleLookup]
  /\ WalletCreated
  /\ currentProvider = Null
  /\ healthCheckInterval = FALSE
  /\ reconnectTimeout = FALSE
  /\ currentEndpointIndex = 0
  /\ retryDelay = INITIAL_RETRY_DELAY
  /\ intervals = 0
  /\ timers = 0
  /\ provOpen = {}
  /\ closing = 0
  /\ calls = [c \in Calls |-> IdleCall]
  /\ probes = [k \in Probes |-> IdleProbe]
  /\ rc = IdleRc
  /\ microQ = <<>>
  /\ sync = FALSE
  /\ lastArmed = 0

\* no fetch function has been handed any answer of the chain
NoChain == <<>>

\* the fetch function has not returned
NotFetched == [returned |-> FALSE]

Init ==
  /\ StoreCreated
  /\ chain = NoChain
  /\ fetched = NotFetched

\* setApiState: a partial update of apiState
setApiState(updates) ==
  apiState' = [f \in DOMAIN apiState |->
                 IF f \in DOMAIN updates THEN updates[f] ELSE apiState[f]]

\* ------------------------------------------------------------ scheduling
\* A task (timer, socket event, network completion) starts only once the
\* microtask queue has drained; a caller may also continue the task it is in.
TaskMay == microQ = <<>>
UserMay == microQ = <<>> \/ sync

\* ------------------------------------------------------ cleanupConnection
\* lines 636-669
\* a reference p once cleanupConnection has run
Disconnected(p) == IF p # Null /\ p = currentProvider THEN Closed ELSE p

\* cleanupConnection without its "Disconnect provider" block (lines 661-669)
cleanupKeepsProvider ==
  /\ healthCheckInterval' = FALSE
  /\ intervals' = IF healthCheckInterval THEN intervals - 1 ELSE intervals
  /\ reconnectTimeout' = FALSE
  /\ timers' = IF reconnectTimeout THEN timers - 1 ELSE timers
  /\ UNCHANGED <<provOpen, closing, currentProvider, api, probes, queryApi, txApi,
                 superseded, lookups, balanceQueries>>

cleanupConnection ==
  /\ healthCheckInterval' = FALSE
  /\ intervals' = IF healthCheckInterval THEN intervals - 1 ELSE intervals
  /\ reconnectTimeout' = FALSE
  /\ timers' = IF reconnectTimeout THEN timers - 1 ELSE timers
  /\ provOpen' = provOpen \ {currentProvider}
  /\ closing' = IF currentProvider # Null THEN Min2(closing + 1, MaxClosing) ELSE closing
  /\ currentProvider' = Null
  /\ api' = Disconnected(api)
  /\ queryApi' = Disconnected(queryApi)
  /\ txApi' = Disconnected(txApi)
  /\ superseded' = superseded \cup
       {q \in {"networkData", "transactionData"} :
          /\ currentProvider # Null
          /\ currentProvider = (IF q = "networkData" THEN queryApi ELSE txApi)}
  /\ probes' = [k \in Probes |-> [probes[k] EXCEPT !.api = Disconnected(@)]]
  /\ lookups' = [l \in Lookups |-> [lookups[l] EXCEPT !.live = FALSE]]
  /\ balanceQueries' = [c \in Controllers |-> [balanceQueries[c] EXCEPT !.live = FALSE]]

\* the connect() calls once cleanupConnection has run
CallsAfterCleanup == [c \in Calls |-> [calls[c] EXCEPT !.prov = Disconnected(@)]]

\* ------------------------------------------------------ scheduleReconnect
\* the test of line 737 letting one attempt too many through
RetriesExceeded(n) == n > MAX_RETRIES

\* line 737
RetriesExhausted(n) == n >= MAX_RETRIES

\* line 749 without the doubling
SameRetryDelay(d) == d

\* line 749
NextRetryDelay(d) == Min2(d * 2, MAX_RETRY_DELAY)
WillArm == ~reconnectTimeout /\ ~RetriesExhausted(apiState.connectionAttempts)

\* scheduleReconnect returning before it arms anything
scheduleNothing == UNCHANGED <<reconnectTimeout, timers, retryDelay, lastArmed>>

\* lines 732-750
scheduleReconnect ==
  /\ reconnectTimeout' = (WillArm \/ reconnectTimeout)
  /\ timers' = IF WillArm THEN timers + 1 ELSE timers
  /\ retryDelay' = IF WillArm THEN NextRetryDelay(retryDelay) ELSE retryDelay
  /\ lastArmed' = IF WillArm THEN retryDelay ELSE lastArmed

rotateEndpoint == currentEndpointIndex' = (currentEndpointIndex + 1) % NumEndpoints


\* ---------------------------------------------------------------- connect
\* the guard of line 296 comparing against the wrong status
AlreadyConnected == status = "connected"

\* line 296
AlreadyConnecting == status = "connecting"

FreeCalls == {c \in Calls : calls[c].pc = "idle"}
FreeCall == CHOOSE c \in FreeCalls : \A d \in FreeCalls : c <= d

\* lines 307-312 of connect
EndpointsToTry(ep) == IF ep # NoEndpoint THEN <<ep>> ELSE ENDPOINTS
StartIndex(ep) == IF ep # NoEndpoint THEN 0 ELSE currentEndpointIndex

\* line 311 without the loop counter
SameEndpointIndex(startIndex, i, len) == startIndex % len

\* line 311
EndpointIndex(startIndex, i, len) == (startIndex + i) % len
TargetEndpoint(ep, startIndex, i) ==
  EndpointsToTry(ep)[EndpointIndex(startIndex, i, Len(EndpointsToTry(ep))) + 1]

\* a provider object not yet in use: ids are reused once nothing refers to them
Referenced ==
  provOpen \cup {currentProvider, api} \cup {calls[c].prov : c \in Calls}
           \cup {probes[k].api : k \in Probes}
FreeProviders == Providers \ Referenced
NewProvider == CHOOSE p \in FreeProviders : \A q \in FreeProviders : p <= q

\* connect(), lines 294-305: from the guard to the first await
connectBegin(ep) ==
  /\ FreeCalls # {}
  /\ isLoading' = TRUE
  /\ UNCHANGED <<isFetching, networkMetrics, txState, chainVars, detailsState, walletState>>
  /\ setApiState([status |-> "connecting",
                  connectionAttempts |-> apiState.connectionAttempts + 1])
  /\ cleanupConnection
  /\ calls' = [CallsAfterCleanup EXCEPT ![FreeCall] =
                                 [IdleCall EXCEPT !.pc = "hop", !.ep = ep]]
  /\ microQ' = Append(microQ, <<"connect", FreeCall>>)

\* connect(ep) as its callers see it: a no-op while status is connecting
connect(ep) ==
  IF AlreadyConnecting
    THEN UNCHANGED <<isLoading, isFetching, networkMetrics, txState, chainVars, detailVars, walletVars,
                     queryApi, txApi, superseded, apiState, healthCheckInterval,
                     intervals, reconnectTimeout, timers, provOpen, closing,
                     currentProvider, api, probes, calls, microQ>>
    ELSE connectBegin(ep)

\* the caller invokes connect(), as the store's initialisation does (line 1332);
\* an endpoint is passed only by reconnect()
Connect ==
  /\ UserMay
  /\ AlreadyConnecting \/ apiState.connectionAttempts < MaxAttempts
  /\ connect(NoEndpoint)
  /\ sync' = (microQ' # <<>>)
  /\ UNCHANGED <<currentEndpointIndex, retryDelay, rc, lastArmed>>

\* connect(), lines 307-330 (the loop's next iteration) or 378-381 (the loop is over)
ConnectResume(c) ==
  /\ microQ # <<>> /\ Head(microQ) = <<"connect", c>>
  /\ microQ' = Tail(microQ)
  /\ sync' = FALSE
  /\ LET ep == calls[c].ep
         startIndex == IF calls[c].i = 0 THEN StartIndex(ep) ELSE calls[c].start
     IN IF calls[c].i < Len(EndpointsToTry(ep))
          THEN /\ FreeProviders # {}
               /\ currentProvider' = NewProvider
               /\ provOpen' = provOpen \cup {NewProvider}
               /\ calls' = [calls EXCEPT ![c] =
                    [@ EXCEPT !.pc = "await", !.start = startIndex, !.prov = NewProvider,
                              !.tried = Append(@, TargetEndpoint(ep, startIndex, calls[c].i))]]
               /\ UNCHANGED <<apiState, isLoading, isFetching, networkMetrics, txState,
                              chainVars, detailVars, walletVars, reconnectTimeout, timers, retryDelay,
                              lastArmed>>
          ELSE /\ isLoading' = FALSE
               /\ UNCHANGED <<isFetching, networkMetrics, txState, chainVars, detailVars, walletVars>>
               /\ setApiState([status |-> "error", lastError |-> AllFailed])
               /\ scheduleReconnect
               /\ calls' = [calls EXCEPT ![c] = IdleCall]
               /\ UNCHANGED <<currentProvider, provOpen>>
  /\ UNCHANGED <<api, queryApi, txApi, superseded, healthCheckInterval, intervals,
                 currentEndpointIndex, closing, probes, rc>>

\* connect() without the call of line 355
noHealthMonitoring == UNCHANGED <<healthCheckInterval, intervals>>

\* setupHealthMonitoring, lines 697-700: sets the interval unless one is set
setupHealthMonitoring ==
  /\ healthCheckInterval' = TRUE
  /\ intervals' = IF healthCheckInterval THEN intervals ELSE intervals + 1

\* fetchNetworkData past its guard, lines 427-446: isFetching is set and the
\* "networkData" query is fetched over the handle a; the query client starts no
\* second run of a query that is still running, the call joins it
startNetworkQuery(a) ==
  /\ isFetching' = TRUE
  /\ queryApi' = IF queryApi # Null THEN queryApi ELSE a

\* connect(), lines 330-364: the endpoint attempt succeeds
AttemptSucceeds(c) ==
  /\ TaskMay
  /\ calls[c].pc = "await"
  /\ calls[c].prov \in provOpen
  /\ api' = calls[c].prov
  /\ setApiState([status |-> "connected",
                  endpoint |-> TargetEndpoint(calls[c].ep, calls[c].start, calls[c].i),
                  lastError |-> NoError])
  /\ setupHealthMonitoring
  /\ currentEndpointIndex' =
       EndpointIndex(calls[c].start, calls[c].i, Len(EndpointsToTry(calls[c].ep)))
  /\ retryDelay' = INITIAL_RETRY_DELAY
  /\ isLoading' = FALSE
  /\ startNetworkQuery(calls[c].prov)
  /\ UNCHANGED <<networkMetrics, txState, chainVars, detailVars, walletVars, txApi, superseded>>
  /\ calls' = [calls EXCEPT ![c] = IdleCall]
  /\ lastArmed' = 0
  /\ sync' = FALSE
  /\ UNCHANGED <<currentProvider, reconnectTimeout, timers, provOpen, closing, probes,
                 rc, microQ>>

\* the catch block of lines 365-374 returning where it should continue
AttemptFailsAndReturns(c) ==
  /\ TaskMay
  /\ calls[c].pc = "await"
  /\ setApiState([lastError |-> ErrMessage])
  /\ cleanupConnection
  /\ calls' = [CallsAfterCleanup EXCEPT ![c] = IdleCall]
  /\ sync' = FALSE
  /\ UNCHANGED <<isLoading, isFetching, networkMetrics, txState, chainVars, detailsState,
                 walletState, currentEndpointIndex, retryDelay, rc, lastArmed, microQ>>

\* connect(), lines 365-374: the endpoint attempt throws
AttemptFails(c) ==
  /\ TaskMay
  /\ calls[c].pc = "await"
  /\ setApiState([lastError |-> ErrMessage])
  /\ cleanupConnection
  /\ calls' = [CallsAfterCleanup EXCEPT ![c] =
                 [calls[c] EXCEPT !.pc = "hop", !.i = @ + 1, !.prov = Null]]
  /\ microQ' = Append(microQ, <<"connect", c>>)
  /\ sync' = FALSE
  /\ UNCHANGED <<isLoading, isFetching, networkMetrics, txState, chainVars, detailsState, walletState,
                 currentEndpointIndex, retryDelay, rc, lastArmed>>

\* fetchNetworkData whose guard looks at api only
NotConnectedNoApi == api = Null

\* fetchNetworkData, line 422
NotConnected == api = Null \/ status # "connected"

\* fetchNetworkData(), lines 410-430, called by refreshData or the auto-refresh
FetchNetworkData ==
  /\ UserMay
  /\ IF NotConnected
       THEN isFetching' = FALSE /\ UNCHANGED queryApi
       ELSE startNetworkQuery(api)
  /\ sync' = (microQ # <<>>)
  /\ UNCHANGED <<apiState, api, isLoading, networkMetrics, txState, chainVars, detailVars, walletVars, txApi,
                 superseded, currentProvider, healthCheckInterval, reconnectTimeout,
                 currentEndpointIndex, retryDelay, intervals, timers, provOpen, closing,
                 calls, probes, rc, microQ, lastArmed>>

\* fetchNetworkData, lines 430-460: the query returns its result; a handle that
\* was torn down rejects the requests it has pending, so it delivers none
FetchSucceeds ==
  /\ TaskMay
  /\ queryApi \in provOpen
  /\ networkMetrics' = FetchedMetrics
  /\ isFetching' = FALSE
  /\ queryApi' = Null
  /\ superseded' = superseded \ {"networkData"}
  /\ sync' = FALSE
  /\ UNCHANGED <<apiState, api, isLoading, txState, chainVars, detailVars, walletVars, txApi, currentProvider,
                 healthCheckInterval, reconnectTimeout, currentEndpointIndex,
                 retryDelay, intervals, timers, provOpen, closing, calls, probes, rc,
                 microQ, lastArmed>>

\* fetchNetworkData whose catch block records nothing
FetchFailsUnrecorded ==
  /\ TaskMay
  /\ queryApi # Null
  /\ isFetching' = FALSE
  /\ queryApi' = Null
  /\ superseded' = superseded \ {"networkData"}
  /\ sync' = FALSE
  /\ UNCHANGED <<apiState, api, isLoading, networkMetrics, txState, chainVars, detailVars, walletVars, txApi,
                 currentProvider, healthCheckInterval, reconnectTimeout,
                 currentEndpointIndex, retryDelay, intervals, timers, provOpen, closing,
                 calls, probes, rc, microQ, lastArmed>>

\* fetchNetworkData, lines 455-460: the query throws or its timeout wins the race
FetchFails ==
  /\ TaskMay
  /\ queryApi # Null
  /\ setApiState([lastError |-> ErrMessage])
  /\ isFetching' = FALSE
  /\ queryApi' = Null
  /\ superseded' = superseded \ {"networkData"}
  /\ sync' = FALSE
  /\ UNCHANGED <<api, isLoading, networkMetrics, txState, chainVars, detailVars, walletVars, txApi,
                 currentProvider, healthCheckInterval, reconnectTimeout,
                 currentEndpointIndex, retryDelay, intervals, timers, provOpen, closing,
                 calls, probes, rc, microQ, lastArmed>>

\* fetchTransactionData(), lines 464-497: past the guard the "transactionData"
\* query is fetched over the store's api, a query still running is joined
FetchTransactionData ==
  /\ UserMay
  /\ IF api = Null \/ status # "connected"
       THEN /\ isTransactionLoading' = FALSE
            /\ isTransactionFetching' = FALSE
            /\ UNCHANGED txApi
       ELSE /\ isTransactionLoading' = TRUE
            /\ isTransactionFetching' = TRUE
            /\ txApi' = IF txApi # Null THEN txApi ELSE api
  /\ sync' = (microQ # <<>>)
  /\ UNCHANGED <<apiState, api, isLoading, isFetching, networkMetrics, queryApi,
                 chainVars, detailVars, walletVars, transactionData, superseded, currentProvider,
                 healthCheckInterval, reconnectTimeout, currentEndpointIndex,
                 retryDelay, intervals, timers, provOpen, closing, calls, probes, rc,
                 microQ, lastArmed>>

\* fetchEnhancedTransactionData, lines 804-964, catches every failure of its
\* requests and returns what it has, nothing at all over a closed handle
TransactionResults ==
  IF txApi \in provOpen THEN {FetchedTransactions, NoTransactions}
                        ELSE {NoTransactions}

\* fetchTransactionData, lines 490-510: the query returns and its result is stored
TransactionFetchReturns(data) ==
  /\ TaskMay
  /\ txApi # Null
  /\ data \in TransactionResults
  /\ transactionData' = data
  /\ isTransactionLoading' = FALSE
  /\ isTransactionFetching' = FALSE
  /\ txApi' = Null
  /\ superseded' = superseded \ {"transactionData"}
  /\ sync' = FALSE
  /\ UNCHANGED <<apiState, api, isLoading, isFetching, networkMetrics, queryApi,
                 chainVars, detailVars, walletVars, currentProvider, healthCheckInterval, reconnectTimeout,
                 currentEndpointIndex, retryDelay, intervals, timers, provOpen, closing,
                 calls, probes, rc, microQ, lastArmed>>

\* ------------------------------------------------- disconnect / reconnect
QueuedDisconnects == {n \in 1..Len(microQ) : microQ[n][1] = "disconnect"}

\* disconnect(), line 385: cleanupConnection runs, the reset waits for the await
disconnectBegin(r) ==
  /\ cleanupConnection
  /\ calls' = CallsAfterCleanup
  /\ microQ' = Append(microQ, <<"disconnect", r>>)

Disconnect ==
  /\ UserMay
  /\ QueuedDisconnects = {}
  /\ disconnectBegin(0)
  /\ sync' = TRUE
  /\ UNCHANGED <<apiState, isLoading, isFetching, networkMetrics, txState, chainVars, detailsState, walletState,
                 currentEndpointIndex, retryDelay, rc, lastArmed>>

\* disconnect(), lines 387-399
DisconnectFinish(r) ==
  /\ microQ # <<>> /\ Head(microQ) = <<"disconnect", r>>
  /\ microQ' = Tail(microQ)
  /\ sync' = FALSE
  /\ apiState' = InitialApiState
  /\ api' = Null
  /\ rc' = IF r = 1 THEN [rc EXCEPT !.pc = "pause"] ELSE rc
  /\ UNCHANGED <<isLoading, isFetching, networkMetrics, txState, chainVars, detailVars, walletVars, queryApi,
                 txApi, superseded, currentProvider, healthCheckInterval, intervals,
                 reconnectTimeout, timers, currentEndpointIndex, retryDelay, provOpen,
                 closing, calls, probes, lastArmed>>

\* line 403 reading the endpoint once disconnect() has reset apiState
EndpointAfterReset == InitialApiState.endpoint

\* reconnect(), line 403
RecordedEndpoint == apiState.endpoint

\* reconnect(), lines 403-404
Reconnect ==
  /\ UserMay
  /\ rc.pc = "idle"
  /\ QueuedDisconnects = {}
  /\ rc' = [pc |-> "disc", ep |-> RecordedEndpoint]
  /\ disconnectBegin(1)
  /\ sync' = TRUE
  /\ UNCHANGED <<apiState, isLoading, isFetching, networkMetrics, txState, chainVars, detailsState, walletState,
                 currentEndpointIndex, retryDelay, lastArmed>>

\* reconnect(), lines 405-406: the pause is over
ReconnectPauseEnds ==
  /\ TaskMay
  /\ rc.pc = "pause"
  /\ rc' = IdleRc
  /\ connect(rc.ep)
  /\ sync' = FALSE
  /\ UNCHANGED <<currentEndpointIndex, retryDelay, lastArmed>>

\* -------------------------------------------------------- reconnect timer
\* the callback of scheduleReconnect's timer, lines 742-746.  disconnect() clears
\* the timer, so one pending during reconnect()'s pause was armed after the pause
\* began, with a delay of INITIAL_RETRY_DELAY or more: the pause, which is that
\* long (line 405), ends first
ReconnectTimerFires ==
  /\ TaskMay
  /\ timers > 0
  /\ rc.pc # "pause"
  /\ rotateEndpoint
  /\ IF AlreadyConnecting
       THEN /\ reconnectTimeout' = FALSE
            /\ timers' = timers - 1
            /\ UNCHANGED <<isLoading, isFetching, networkMetrics, txState, chainVars, detailVars, walletVars,
                           queryApi, txApi, superseded, apiState, healthCheckInterval,
                           intervals, provOpen, closing, currentProvider, api, probes,
                           calls, microQ>>
       ELSE connectBegin(NoEndpoint)
  /\ sync' = FALSE
  /\ UNCHANGED <<retryDelay, rc, lastArmed>>

\* ----------------------------------------------------------- health check
FreeProbes == {k \in Probes : probes[k].pc = "idle"}

\* the guard of lines 703-708 without its test of the status
TickSkipsWithoutApi == api = Null

\* lines 703-708: the tick returns at once
TickSkips == api = Null \/ status \notin {"connected", "degraded"}

\* the interval callback, lines 701-712: returns at once or issues the probe
HealthTick ==
  /\ TaskMay
  /\ intervals > 0
  /\ IF TickSkips
       THEN UNCHANGED probes
       ELSE /\ FreeProbes # {}
            /\ LET k == CHOOSE k \in FreeProbes : TRUE
               IN probes' = [probes EXCEPT ![k] =
                               [pc |-> "await", api |-> api, snap |-> status]]
  /\ sync' = FALSE
  /\ UNCHANGED <<apiState, api, queryApi, txApi, superseded, isLoading, isFetching,
                 networkMetrics, txState, chainVars, detailVars, walletVars, currentProvider,
                 healthCheckInterval, intervals, reconnectTimeout, timers,
                 currentEndpointIndex, retryDelay, provOpen, closing, calls, rc, microQ,
                 lastArmed>>

\* lines 717-723: the status the tick writes, from the status it read at line 701
HealthStatus(snap, latency, now) ==
  IF latency > MAX_LATENCY
    THEN IF snap # "degraded" THEN "degraded" ELSE now
    ELSE IF snap = "degraded" THEN "connected" ELSE now

\* lines 713-723: the probe answers after `latency`
ProbeAnswers(k, latency) ==
  /\ TaskMay
  /\ probes[k].pc = "await"
  /\ probes[k].api \in provOpen
  /\ setApiState([latency |-> latency,
                  status |-> HealthStatus(probes[k].snap, latency, status)])
  /\ probes' = [probes EXCEPT ![k] = IdleProbe]
  /\ sync' = FALSE
  /\ UNCHANGED <<api, queryApi, txApi, superseded, isLoading, isFetching,
                 networkMetrics, txState, chainVars, detailVars, walletVars, currentProvider,
                 healthCheckInterval, intervals, reconnectTimeout, timers,
                 currentEndpointIndex, retryDelay, provOpen, closing, calls, rc, microQ,
                 lastArmed>>

\* the catch of lines 724-728 swallowing the error
ProbeFailsSilently(k) ==
  /\ TaskMay
  /\ probes[k].pc = "await"
  /\ probes' = [probes EXCEPT ![k] = IdleProbe]
  /\ sync' = FALSE
  /\ UNCHANGED <<apiState, api, queryApi, txApi, superseded, isLoading, isFetching,
                 networkMetrics, txState, chainVars, detailVars, walletVars, currentProvider,
                 healthCheckInterval, intervals, reconnectTimeout, timers,
                 currentEndpointIndex, retryDelay, provOpen, closing, calls, rc, microQ,
                 lastArmed>>

\* lines 724-728: the probe throws
ProbeFails(k) ==
  /\ TaskMay
  /\ probes[k].pc = "await"
  /\ setApiState([status |-> "error", lastError |-> ErrMessage])
  /\ scheduleReconnect
  /\ probes' = [probes EXCEPT ![k] = IdleProbe]
  /\ sync' = FALSE
  /\ UNCHANGED <<api, queryApi, txApi, superseded, isLoading, isFetching,
                 networkMetrics, txState, chainVars, detailVars, walletVars, currentProvider,
                 healthCheckInterval, intervals, currentEndpointIndex, provOpen,
                 closing, calls, rc, microQ>>

\* -------------------------------------------------------- provider events
\* the listeners of setupProviderListeners, lines 675-690
onConnected == setApiState([status |-> "connected"])

onDisconnected ==
  /\ setApiState([status |-> "disconnected"])
  /\ scheduleReconnect

onError ==
  /\ setApiState([status |-> "error", lastError |-> ErrMessage])
  /\ scheduleReconnect

EventFrame ==
  /\ sync' = FALSE
  /\ UNCHANGED <<api, queryApi, txApi, superseded, isLoading, isFetching,
                 networkMetrics, txState, chainVars, detailVars, walletVars, currentProvider,
                 healthCheckInterval, intervals, currentEndpointIndex, provOpen, calls,
                 probes, rc, microQ>>

\* a provider that connect() created and nothing has disconnected yet
ProviderConnected ==
  /\ TaskMay /\ provOpen # {}
  /\ onConnected
  /\ EventFrame
  /\ UNCHANGED <<reconnectTimeout, timers, retryDelay, lastArmed, closing>>

ProviderDisconnected ==
  /\ TaskMay /\ provOpen # {}
  /\ onDisconnected
  /\ EventFrame
  /\ UNCHANGED closing

ProviderError ==
  /\ TaskMay /\ provOpen # {}
  /\ onError
  /\ EventFrame
  /\ UNCHANGED closing

\* a provider that cleanupConnection disconnected: its socket closes, with or
\* without an error first, and its listeners are still attached
ClosedProviderError ==
  /\ TaskMay /\ closing > 0
  /\ onError
  /\ EventFrame
  /\ UNCHANGED closing

ClosedProviderDisconnected ==
  /\ TaskMay /\ closing > 0
  /\ onDisconnected
  /\ closing' = closing - 1
  /\ EventFrame

\* ------------------------------------------------------------------- Next
\* the connection manager; the query that connect() starts at line 363 is running,
\* its return is part of NextFetch
Next ==
  \/ Connect
  \/ Disconnect
  \/ \E c \in Calls : ConnectResume(c)
  \/ \E r \in {0, 1} : DisconnectFinish(r)
  \/ \E c \in Calls : AttemptSucceeds(c)
  \/ \E c \in Calls : AttemptFails(c)
  \/ ReconnectTimerFires
  \/ HealthTick
  \/ \E k \in Probes, latency \in Latencies : ProbeAnswers(k, latency)
  \/ \E k \in Probes : ProbeFails(k)
  \/ ProviderConnected
  \/ ProviderDisconnected
  \/ ProviderError
  \/ ClosedProviderError
  \/ ClosedProviderDisconnected

Spec == Init /\ [][Next]_vars

\* with reconnect() as an operation of its own
NextAll == Next \/ Reconnect \/ ReconnectPauseEnds
SpecAll == Init /\ [][NextAll]_vars

\* the caller calls connect() and reconnect() but never disconnect() itself; the
\* ticks of the health-check interval are not delivered (they begin no connect()
\* and reach scheduleReconnect the way the provider's error events do)
NextReconnect ==
  \/ Connect
  \/ Reconnect
  \/ ReconnectPauseEnds
  \/ \E c \in Calls : ConnectResume(c)
  \/ \E r \in {0, 1} : DisconnectFinish(r)
  \/ \E c \in Calls : AttemptSucceeds(c)
  \/ \E c \in Calls : AttemptFails(c)
  \/ ReconnectTimerFires
  \/ ProviderConnected
  \/ ProviderDisconnected
  \/ ProviderError
  \/ ClosedProviderError
  \/ ClosedProviderDisconnected
SpecReconnect == Init /\ [][NextReconnect]_vars

\* the connection's life cycle without the health check, for what each
\* connect() comes to: the caller connects and disconnects, providers emit their
\* events, the reconnect timer fires.  The microtasks of the event loop run
\* (weak fairness), and every endpoint attempt that is awaited again and again
\* settles, by succeeding or by failing (strong fairness: an attempt can settle
\* only between two tasks).
NextConnecting ==
  \/ Connect
  \/ Disconnect
  \/ \E c \in Calls : ConnectResume(c)
  \/ \E r \in {0, 1} : DisconnectFinish(r)
  \/ \E c \in Calls : AttemptSucceeds(c)
  \/ \E c \in Calls : AttemptFails(c)
  \/ ReconnectTimerFires
  \/ ProviderConnected
  \/ ProviderDisconnected
  \/ ProviderError
  \/ ClosedProviderError
  \/ ClosedProviderDisconnected
SpecConnecting ==
  /\ Init
  /\ [][NextConnecting]_vars
  /\ WF_vars(\E c \in Calls : ConnectResume(c))
  /\ WF_vars(\E r \in {0, 1} : DisconnectFinish(r))
  /\ \A c \in Calls : SF_vars(AttemptSucceeds(c) \/ AttemptFails(c))

\* the data fetches next to the connection's life cycle: the caller connects,
\* disconnects and fetches, the queries return or fail; every endpoint attempt
\* succeeds here (the failing ones are in Spec)
NextFetch ==
  \/ Connect
  \/ Disconnect
  \/ \E c \in Calls : ConnectResume(c)
  \/ \E r \in {0, 1} : DisconnectFinish(r)
  \/ \E c \in Calls : AttemptSucceeds(c)
  \/ FetchNetworkData
  \/ FetchSucceeds
  \/ FetchFails
  \/ FetchTransactionData
  \/ \E data \in {FetchedTransactions, NoTransactions} : TransactionFetchReturns(data)
  \/ ReconnectTimerFires
  \/ ProviderConnected
  \/ ProviderDisconnected
  \/ ProviderError
  \/ ClosedProviderError
  \/ ClosedProviderDisconnected
SpecFetch == Init /\ [][NextFetch]_vars

\* ------------------------------------------- fetchNetworkDataWithTimeout
\* lines 756-801: the metrics computed from one round of answers of the chain
MaxValidators == 4
MaxLedgers == 3

\* numbers cross the string conversions in decimal digits, the most significant
\* first: <<1, 0>> is "10"

\* BN keeps a number in words of 26 bits, the least significant first
BNWord == 2 ^ 26

Rest(w) == IF w = <<>> THEN <<>> ELSE Tail(w)
First(w) == IF w = <<>> THEN 0 ELSE Head(w)

RECURSIVE BNaddWords(_, _, _)
BNaddWords(a, b, carry) ==
  IF a = <<>> /\ b = <<>>
    THEN IF carry = 0 THEN <<>> ELSE <<carry>>
    ELSE LET r == First(a) + First(b) + carry
         IN  <<r % BNWord>> \o BNaddWords(Rest(a), Rest(b), r \div BNWord)

\* an addition that loses what does not fit its word
BNaddDroppingCarry(a, b) ==
  [i \in 1..(IF Len(a) > Len(b) THEN Len(a) ELSE Len(b)) |->
     ((IF i <= Len(a) THEN a[i] ELSE 0) + (IF i <= Len(b) THEN b[i] ELSE 0)) % BNWord]

\* BN.add
BNadd(a, b) == BNaddWords(a, b, 0)

\* BN.imuln(10) followed by BN.iaddn(d), the step of BN's string parser
RECURSIVE BNmul10Words(_, _)
BNmul10Words(a, carry) ==
  IF a = <<>>
    THEN IF carry = 0 THEN <<>> ELSE <<carry>>
    ELSE LET r == Head(a) * 10 + carry
         IN  <<r % BNWord>> \o BNmul10Words(Tail(a), r \div BNWord)

\* new BN(0)
BNzero == <<0>>

\* new BN(string), line 780
RECURSIVE BNparse(_, _)
BNparse(digits, acc) ==
  IF digits = <<>> THEN acc
  ELSE BNparse(Tail(digits), BNmul10Words(acc, Head(digits)))
BNfromString(digits) == BNparse(digits, BNzero)

\* BN.toString(), line 790: the words are divided by ten, the most significant
\* word first, until nothing is left; the remainders are the digits
RECURSIVE BNdiv10(_, _)
BNdiv10(a, rem) ==
  IF a = <<>> THEN [q |-> <<>>, r |-> rem]
  ELSE LET x == rem * BNWord + a[Len(a)]
           low == BNdiv10(SubSeq(a, 1, Len(a) - 1), x % 10)
       IN  [q |-> Append(low.q, x \div 10), r |-> low.r]

BNisZero(a) == \A i \in 1..Len(a) : a[i] = 0

RECURSIVE BNdigits(_)
BNdigits(a) ==
  IF BNisZero(a) THEN <<>>
  ELSE LET d == BNdiv10(a, 0) IN Append(BNdigits(d.q), d.r)
BNtoString(a) == IF BNisZero(a) THEN <<0>> ELSE BNdigits(a)

\* Math.round of the quotient num / den of two counts: the nearest integer, a
\* half rounding up
MathRound(num, den) == (2 * num + den) \div (2 * den)

\* prefs.blocked of a validator entry: a Bool, or missing in the entry
BlockedValues == {"true", "false", "undefined"}

\* a ledger entry: Option<StakingLedger>, its active stake in decimal digits
NoLedger == [isSome |-> FALSE]
Stakes ==
  { <<1>>,
    <<6, 7, 1, 0, 8, 8, 6, 3>>,
    <<9, 0, 0, 7, 1, 9, 9, 2, 5, 4, 7, 4, 0, 9, 9, 3>>,
    <<9, 9, 9, 9, 9, 9, 9, 9, 9, 9, 9, 9, 9, 9, 9, 9, 9, 9>> }
Ledgers == {NoLedger} \cup {[isSome |-> TRUE, active |-> st] : st \in Stakes}

SeqsUpTo(S, n) == UNION {[1..m -> S] : m \in 0..n}

\* lines 766-769: the entries whose prefs are not blocked
Online(validatorsEntries) ==
  {i \in 1..Len(validatorsEntries) : validatorsEntries[i] # "true"}

\* lines 771-774 without the test of totalValidators: 0 / 0 is NaN, no number of
\* the range; -1 stands for it
networkHealthUnguarded(validatorsOnline, totalValidators) ==
  IF totalValidators = 0 THEN -1
  ELSE MathRound(validatorsOnline * 100, totalValidators)

\* lines 771-774
networkHealth(validatorsOnline, totalValidators) ==
  IF totalValidators > 0
    THEN MathRound(validatorsOnline * 100, totalValidators)
    ELSE 0

\* lines 776-782: the loop over the ledger entries
RECURSIVE totalValueLocked(_, _)
totalValueLocked(stakingLedgers, sum) ==
  IF stakingLedgers = <<>> THEN sum
  ELSE LET ledger == Head(stakingLedgers)
       IN  totalValueLocked(Tail(stakingLedgers),
             IF ledger.isSome THEN BNadd(sum, BNfromString(ledger.active)) ELSE sum)

\* lines 784-800: the metrics; totalValueLocked is the string handed to formatTxor
Metrics(answers) ==
  LET totalValidators == Len(answers.validatorsEntries)
      validatorsOnline == Cardinality(Online(answers.validatorsEntries))
  IN  [validatorsOnline |-> validatorsOnline,
       totalValidators |-> totalValidators,
       totalValueLocked |-> BNtoString(totalValueLocked(answers.stakingLedgers, BNzero)),
       networkHealth |-> networkHealth(validatorsOnline, totalValidators),
       activeAddresses |-> (validatorsOnline * 12) \div 10]

\* the answers to api.query.staking.validators.entries() and
\* api.query.staking.ledger.entries()
InitMetrics ==
  /\ StoreCreated
  /\ chain \in [validatorsEntries : SeqsUpTo(BlockedValues, MaxValidators),
                stakingLedgers : SeqsUpTo(Ledgers, MaxLedgers)]
  /\ fetched = NotFetched

fetchNetworkDataWithTimeout ==
  /\ fetched = NotFetched
  /\ fetched' = Metrics(chain)
  /\ UNCHANGED <<chain, storeVars>>

NextMetrics == fetchNetworkDataWithTimeout
SpecMetrics == InitMetrics /\ [][NextMetrics]_vars

\* --------------------------------------------------------------- formatTxor
\* the two balance formatters: src/unnamed/part_001, lines 11-23 (the compact
\* one of the store) and src/src/lib/utils.ts, lines 17-34 (the padded one).
\* A balance crosses as a string, a tuple of characters.
MaxRawDigits == 5

DecimalDigits == <<"0", "1", "2", "3", "4", "5", "6", "7", "8", "9">>
IsDigit(c) == \E i \in 1..10 : DecimalDigits[i] = c
digitOf(c) == (CHOOSE i \in 1..10 : DecimalDigits[i] = c) - 1
charsOf(digits) == [i \in 1..Len(digits) |-> DecimalDigits[digits[i] + 1]]

\* bn.js parseBase: the value of one character, its code less the code of "0";
\* "," is four below "0" and the letter "a" counts as ten
parseBaseValue(c) == IF IsDigit(c) THEN digitOf(c) ELSE IF c = "," THEN -4 ELSE 10

\* new BN(string), line 13: a leading "-" is the sign, the rest is read in base
\* ten.  bn.js 5 asserts that every character is a digit of the base ('Invalid
\* character'), bn.js 4 adds whatever value the character has: strict tells
\* which of the two the build carries.
BNfromChars(s, strict) ==
  LET negative == s # <<>> /\ Head(s) = "-"
      body == IF negative THEN Tail(s) ELSE s
      words == BNparse([i \in 1..Len(body) |-> parseBaseValue(body[i])], BNzero)
  IN  IF strict /\ \E i \in 1..Len(body) : ~ IsDigit(body[i])
        THEN [invalid |-> TRUE]
        ELSE [invalid |-> FALSE, negative |-> negative /\ ~ BNisZero(words),
              words |-> words]

\* BN.div and BN.mod by new BN(10).pow(new BN(decimals)), lines 14-17: the long
\* division of the words, one power of ten after the other; the remainders are
\* the digits of the rest, the least significant first
RECURSIVE BNdivmodPow10(_, _)
BNdivmodPow10(a, decimals) ==
  IF decimals = 0 THEN [div |-> a, mod |-> <<>>]
  ELSE LET d == BNdiv10(a, 0)
           rest == BNdivmodPow10(d.q, decimals - 1)
       IN  [div |-> rest.div, mod |-> Append(rest.mod, d.r)]

\* a digit string without its leading zeros, "0" for nothing left
RECURSIVE stripLeadingZeros(_)
stripLeadingZeros(digits) ==
  IF Len(digits) > 1 /\ Head(digits) = 0 THEN stripLeadingZeros(Tail(digits))
  ELSE IF digits = <<>> THEN <<0>>
  ELSE digits

\* BN.toString() of a signed number: the sign goes before a number that is not 0
BNsignedToString(negative, digits) ==
  LET text == charsOf(stripLeadingZeros(digits))
  IN  IF negative /\ text # <<"0">> THEN <<"-">> \o text ELSE text

\* String.padStart(targetLength, "0")
padStart(s, targetLength) ==
  IF Len(s) >= targetLength THEN s
  ELSE [i \in 1..(targetLength - Len(s)) |-> "0"] \o s

\* a slice that keeps every digit of the fraction
sliceNoFraction(s) == s

\* String.slice(0, 4), line 20
FRACTION_DIGITS == 4
sliceFraction(s) ==
  SubSeq(s, 1, IF Len(s) < FRACTION_DIGITS THEN Len(s) ELSE FRACTION_DIGITS)

\* String.replace(/0+$/, ""), line 21
RECURSIVE stripTrailingZeros(_)
stripTrailingZeros(s) ==
  IF s # <<>> /\ s[Len(s)] = "0" THEN stripTrailingZeros(SubSeq(s, 1, Len(s) - 1))
  ELSE s

\* what a call of a formatter ends with
FormatReturns(text) == [threw |-> FALSE, text |-> text]
FormatThrows == [threw |-> TRUE]

\* lines 11-23: the compact formatter of the store
formatTxor(rawBalance, decimals, strict) ==
  IF rawBalance = <<>> \/ rawBalance = <<"0">> THEN FormatReturns(<<"0">>)
  ELSE LET bn == BNfromChars(rawBalance, strict)
       IN  IF bn.invalid THEN FormatThrows
           ELSE LET parts == BNdivmodPow10(bn.words, decimals)
                    whole == BNsignedToString(bn.negative, BNtoString(parts.div))
                    fraction ==
                      stripTrailingZeros(sliceFraction(padStart(
                        BNsignedToString(bn.negative, parts.mod), decimals)))
                IN  FormatReturns(IF fraction # <<>>
                                    THEN whole \o <<".">> \o fraction
                                    ELSE whole)

\* utils.ts, line 22: balanceRaw.replace(/[,\s]/g, '')
RECURSIVE clean(_)
clean(s) ==
  IF s = <<>> THEN <<>>
  ELSE IF Head(s) \in {",", " "} THEN clean(Tail(s))
  ELSE <<Head(s)>> \o clean(Tail(s))

\* the digits a string starts with
RECURSIVE leadingDigits(_)
leadingDigits(s) ==
  IF s # <<>> /\ IsDigit(Head(s)) THEN <<Head(s)>> \o leadingDigits(Tail(s))
  ELSE <<>>

\* parseFloat, line 23, of a string of digits, letters and "-": the number the
\* longest numeric prefix spells, NaN where there is none
NaN == [isNaN |-> TRUE]
parseFloat(s) ==
  LET negative == s # <<>> /\ Head(s) = "-"
      digits == leadingDigits(IF negative THEN Tail(s) ELSE s)
  IN  IF digits = <<>> THEN NaN
      ELSE [isNaN |-> FALSE, negative |-> negative, digits |-> digits]

\* utils.ts, lines 17-34, for a string: the canonical zero of line 30, and
\* otherwise what toLocaleString renders of num / 10^decimals, a number that is
\* not 0 and whose rendering has no padded fraction (minimumFractionDigits: 0)
CanonicalZeroPadded == <<"0", ".", "0", "0", "0", "0">>
formatTxorPadded(balanceRaw, decimals) ==
  LET num == parseFloat(clean(balanceRaw))
  IN  IF num.isNaN \/ \A i \in 1..Len(num.digits) : num.digits[i] = "0"
        THEN FormatReturns(CanonicalZeroPadded)
        ELSE [threw |-> FALSE, localized |-> num, decimals |-> decimals]

\* the balances formatted: every string of a few digits, balances beyond the
\* precision of a float up to 2^128, and strings that are no balance
RawDigits == {"0", "1", "5", "9"}
ShortBalances == UNION {[1..n -> RawDigits] : n \in 0..MaxRawDigits}
LargeBalances ==
  { <<"9", "0", "0", "7", "1", "9", "9", "2", "5", "4", "7", "4", "0", "9", "9", "3">>,
    <<"1", "9", "9", "9", "9", "5", "0", "0", "0", "0", "0", "0", "0", "0", "0", "0",
      "0", "0", "0">>,
    <<"1", "8", "4", "4", "6", "7", "4", "4", "0", "7", "3", "7", "0", "9", "5", "5",
      "1", "6", "1", "6">>,
    <<"3", "4", "0", "2", "8", "2", "3", "6", "6", "9", "2", "0", "9", "3", "8", "4",
      "6", "3", "4", "6", "3", "3", "7", "4", "6", "0", "7", "4", "3", "1", "7", "6",
      "8", "2", "1", "1", "4", "5", "5">>,
    <<"3", "4", "0", "2", "8", "2", "3", "6", "6", "9", "2", "0", "9", "3", "8", "4",
      "6", "3", "4", "6", "3", "3", "7", "4", "6", "0", "7", "4", "3", "1", "7", "6",
      "8", "2", "1", "1", "4", "5", "6">> }
EighteenZeros == [i \in 1..18 |-> "0"]
Malformed ==
  { <<"a">>, <<"1", "a">>, <<"a", "1">>, <<"1", ",", "5">>, <<"-", "5">>,
    <<"-", "1", "5">>, <<"1", "a">> \o EighteenZeros, <<"-", "5">> \o EighteenZeros }
RawBalances == ShortBalances \cup LargeBalances \cup Malformed
Decimals == {0, 1, 3, 4, 5, 18}

\* the string formatted, its decimals and the bn.js of the build
InitFormat ==
  /\ StoreCreated
  /\ chain \in [rawBalance : RawBalances, decimals : Decimals, strict : BOOLEAN]
  /\ fetched = NotFetched

\* a call of the compact formatter
FormatCompact ==
  /\ fetched = NotFetched
  /\ fetched' = [returned |-> TRUE, variant |-> "compact",
                 result |-> formatTxor(chain.rawBalance, chain.decimals, chain.strict)]
  /\ UNCHANGED <<chain, storeVars>>

\* a call of the padded formatter
FormatPadded ==
  /\ fetched = NotFetched
  /\ fetched' = [returned |-> TRUE, variant |-> "padded",
                 result |-> formatTxorPadded(chain.rawBalance, chain.decimals)]
  /\ UNCHANGED <<chain, storeVars>>

NextFormat == FormatCompact \/ FormatPadded
SpecFormat == InitFormat /\ [][NextFormat]_vars

\* ------------------------------------------ fetchEnhancedTransactionData
\* lines 804-965: the recent blocks and their transactions
MaxHeight == 5
MaxExtrinsics == 2

WINDOW == 5
TRANSACTION_CAP == 100

\* what the chain holds at one height: getBlockHash(number) throws, or the hash is
\* there and getBlock / events.at throw, or the block with its extrinsics; building
\* the transaction of a "bad" extrinsic throws, and so does deriving the timestamp
\* or the record of a block whose timestamp is FALSE
NoHash == [hash |-> FALSE]
NoBlock == [hash |-> TRUE, block |-> FALSE]
UndecodableBlock ==
  [hash |-> TRUE, block |-> TRUE, timestamp |-> FALSE, extrinsics |-> <<"ok">>]
Block(e) == [hash |-> TRUE, block |-> TRUE, timestamp |-> TRUE, extrinsics |-> e]
ChainBlocks ==
  {NoHash, NoBlock, UndecodableBlock} \cup
  {Block(e) : e \in SeqsUpTo({"ok", "bad"}, MaxExtrinsics)}

\* getFinalizedHead or getHeader throws
NoFinalizedHead == [finalized |-> FALSE]

\* the answer to a request for the height number
BlockAt(answers, number) ==
  IF number \in 0..answers.height THEN answers.blocks[number + 1] ELSE NoHash

\* lines 824-827 without the filter
blockNumbersUnfiltered(latestBlockNumber) ==
  [i \in 1..WINDOW |-> latestBlockNumber - (i - 1)]

\* lines 824-827
blockNumbers(latestBlockNumber) ==
  SelectSeq([i \in 1..WINDOW |-> latestBlockNumber - (i - 1)], LAMBDA n : n >= 0)

\* the extrinsics in front of the first one whose transaction cannot be built
Processed(extrinsics) ==
  LET bad == {j \in 1..Len(extrinsics) : extrinsics[j] = "bad"}
  IN  IF bad = {} THEN extrinsics
      ELSE SubSeq(extrinsics, 1, (CHOOSE j \in bad : \A k \in bad : j <= k) - 1)

\* a count that leaves the first extrinsic of a block out
txCountAfterFirst(block) ==
  IF block.extrinsics = <<>> THEN 0 ELSE Len(block.extrinsics) - 1

\* line 890
txCount(block) == Len(block.extrinsics)

\* lines 886-893: the block record
BlockRecord(number, block) == [height |-> number, txCount |-> txCount(block)]

\* lines 896-952: the transactions pushed before forEach ends or throws
BlockTransactions(number, block) ==
  [j \in 1..Len(Processed(block.extrinsics)) |-> [blockNumber |-> number, index |-> j - 1]]

\* lines 875-955, the body of the try: what is pushed until it ends or throws
ProcessBlock(acc, number, block) ==
  IF block.timestamp
    THEN [blocks |-> Append(acc.blocks, BlockRecord(number, block)),
          transactions |-> acc.transactions \o BlockTransactions(number, block)]
    ELSE acc

\* a loop that gives up at the first height that was not delivered
RECURSIVE ProcessBlocksAborting(_, _, _)
ProcessBlocksAborting(answers, numbers, acc) ==
  IF numbers = <<>> THEN acc
  ELSE LET number == Head(numbers)
           block == BlockAt(answers, number)
       IN  IF block.hash /\ block.block
             THEN ProcessBlocksAborting(answers, Tail(numbers),
                                        ProcessBlock(acc, number, block))
             ELSE acc

\* lines 870-956: the loop over the window
RECURSIVE ProcessBlocks(_, _, _)
ProcessBlocks(answers, numbers, acc) ==
  IF numbers = <<>> THEN acc
  ELSE LET number == Head(numbers)
           block == BlockAt(answers, number)
       IN  ProcessBlocks(answers, Tail(numbers),
             IF block.hash /\ block.block
               THEN ProcessBlock(acc, number, block)
               ELSE acc)

\* Array.sort with (a, b) => b.blockNumber - a.blockNumber, a stable sort: the
\* entries of the highest block in the order they had, then those of the next one
RECURSIVE SortedByBlockNumber(_, _)
SortedByBlockNumber(txs, blockNumbersLeft) ==
  IF blockNumbersLeft = {} THEN <<>>
  ELSE LET highest == CHOOSE n \in blockNumbersLeft : \A m \in blockNumbersLeft : m <= n
       IN  SelectSeq(txs, LAMBDA tx : tx.blockNumber = highest)
             \o SortedByBlockNumber(txs, blockNumbersLeft \ {highest})

SortByBlockNumber(txs) ==
  SortedByBlockNumber(txs, {txs[i].blockNumber : i \in 1..Len(txs)})

\* a list that is not cut
sliceNothing(txs) == txs

\* line 960: transactions.slice(0, 100)
slice(txs) == SubSeq(txs, 1, Min2(Len(txs), TRANSACTION_CAP))

\* lines 804-965; requested lists the heights whose hash was asked for
EnhancedTransactionData(answers) ==
  IF ~answers.finalized
    THEN [transactions |-> <<>>, blocks |-> <<>>, requested |-> <<>>]
    ELSE LET numbers == blockNumbers(answers.height)
             done == ProcessBlocks(answers, numbers, [blocks |-> <<>>, transactions |-> <<>>])
         IN  [transactions |-> SortByBlockNumber(slice(done.transactions)),
              blocks |-> done.blocks,
              requested |-> numbers]

\* the finalized height and the blocks of the chain up to it
InitTransactions ==
  /\ StoreCreated
  /\ chain \in {NoFinalizedHead} \cup
       UNION {[finalized : {TRUE}, height : {H}, blocks : [1..(H + 1) -> ChainBlocks]] :
                H \in 0..MaxHeight}
  /\ fetched = NotFetched

fetchEnhancedTransactionData ==
  /\ fetched = NotFetched
  /\ fetched' = EnhancedTransactionData(chain)
  /\ UNCHANGED <<chain, storeVars>>

NextTransactions == fetchEnhancedTransactionData
SpecTransactions == InitTransactions /\ [][NextTransactions]_vars

\* chains whose blocks are large enough for the window to hold more transactions
\* than the result keeps: every extrinsic of a block is processed
MaxBlockSize == 60
BlockSizes == {0, 1, MaxBlockSize - 10, MaxBlockSize}
LargeBlocks == {NoHash} \cup {Block([j \in 1..k |-> "ok"]) : k \in BlockSizes}

InitLargeBlocks ==
  /\ StoreCreated
  /\ chain \in UNION {[finalized : {TRUE}, height : {H},
                       blocks : [1..(H + 1) -> LargeBlocks]] : H \in 0..MaxHeight}
  /\ fetched = NotFetched

SpecLargeBlocks == InitLargeBlocks /\ [][NextTransactions]_vars

\* ------------------------------------------ detectTransferFromExtrinsic
\* A name is the tuple of its characters, so that toLowerCase() and
\* includes() are computed on the characters as JavaScript computes them.
UpperCaseLetters ==
  <<"A", "B", "C", "D", "E", "F", "G", "H", "I", "J", "K", "L", "M",
    "N", "O", "P", "Q", "R", "S", "T", "U", "V", "W", "X", "Y", "Z">>
LowerCaseLetters ==
  <<"a", "b", "c", "d", "e", "f", "g", "h", "i", "j", "k", "l", "m",
    "n", "o", "p", "q", "r", "s", "t", "u", "v", "w", "x", "y", "z">>

\* String.prototype.toLowerCase on one character and on a string
toLowerCaseChar(c) ==
  IF \E i \in 1..26 : UpperCaseLetters[i] = c
    THEN LowerCaseLetters[CHOOSE i \in 1..26 : UpperCaseLetters[i] = c]
    ELSE c
toLowerCase(s) == [i \in 1..Len(s) |-> toLowerCaseChar(s[i])]

\* String.prototype.includes
includes(s, t) ==
  \E first \in 1..(Len(s) + 1) :
    /\ first + Len(t) - 1 <= Len(s)
    /\ SubSeq(s, first, first + Len(t) - 1) = t

\* lines 987-994: transferMethods
transferMethods ==
  << <<"t", "r", "a", "n", "s", "f", "e", "r">>,
     <<"t", "r", "a", "n", "s", "f", "e", "r", "K", "e", "e", "p", "A", "l", "i", "v", "e">>,
     <<"t", "r", "a", "n", "s", "f", "e", "r", "A", "l", "l">>,
     <<"f", "o", "r", "c", "e", "T", "r", "a", "n", "s", "f", "e", "r">>,
     <<"t", "r", "a", "n", "s", "f", "e", "r", "A", "l", "l", "o", "w", "D", "e", "a", "t", "h">>,
     <<"t", "r", "a", "n", "s", "f", "e", "r", "W", "i", "t", "h", "F", "e", "e">> >>

\* lines 1056-1063: stakingMethods
stakingMethods ==
  << <<"b", "o", "n", "d">>,
     <<"b", "o", "n", "d", "E", "x", "t", "r", "a">>,
     <<"u", "n", "b", "o", "n", "d">>,
     <<"w", "i", "t", "h", "d", "r", "a", "w", "U", "n", "b", "o", "n", "d", "e", "d">>,
     <<"n", "o", "m", "i", "n", "a", "t", "e">>,
     <<"c", "h", "i", "l", "l">> >>

Undefined == "undefined"

\* lines 977-984: transferInfo before any rule has run
NoTransferInfo ==
  [isTransfer |-> FALSE, from |-> Undefined, to |-> Undefined, amount |-> Undefined,
   asset |-> "XOR", decodedData |-> [decoded |-> FALSE]]

\* lines 996-1019, Method 1: the call is a transfer by its pallet and name
MethodRule(transferInfo, extrinsic) ==
  LET section == extrinsic.section
      method == extrinsic.method
      args == extrinsic.args
  IN  IF /\ section \in {"balances", "currencies", "tokens", "assets"}
         /\ \E k \in 1..Len(transferMethods) :
              includes(toLowerCase(method), toLowerCase(transferMethods[k]))
        THEN [transferInfo EXCEPT
                !.isTransfer = TRUE,
                !.from = extrinsic.signer,
                !.to = IF Len(args) >= 2 THEN args[1] ELSE @,
                !.amount = IF Len(args) >= 2 THEN args[2] ELSE @,
                !.decodedData = [decoded |-> TRUE, section |-> section,
                                 method |-> method, args |-> args]]
        ELSE transferInfo

\* lines 1022-1033: the events that are a transfer of one of the four pallets
isTransferEvent(e) ==
  \/ e.section = "balances" /\ e.method = "Transfer"
  \/ e.section = "currencies" /\ e.method = "Transferred"
  \/ e.section = "tokens" /\ e.method = "Transfer"
  \/ e.section = "assets" /\ e.method = "Transferred"

\* lines 1035-1053, Method 2: the first transfer event of the extrinsic
EventRule(transferInfo, events) ==
  LET transferEvents == SelectSeq(events, isTransferEvent)
  IN  IF Len(transferEvents) > 0
        THEN LET eventData == transferEvents[1].data
                 positional == Len(eventData) >= 3
             IN  [transferInfo EXCEPT
                    !.isTransfer = TRUE,
                    !.from = IF positional THEN eventData[1] ELSE @,
                    !.to = IF positional THEN eventData[2] ELSE @,
                    !.amount = IF positional THEN eventData[3] ELSE @,
                    !.decodedData = [decoded |-> TRUE,
                                     eventSection |-> transferEvents[1].section,
                                     eventMethod |-> transferEvents[1].method,
                                     eventData |-> eventData]]
        ELSE transferInfo

\* the staking step, also marking the call as a transfer
StakingRuleMarkingTransfer(transferInfo, extrinsic) ==
  IF /\ extrinsic.section = "staking"
     /\ \E k \in 1..Len(stakingMethods) : stakingMethods[k] = extrinsic.method
    THEN [transferInfo EXCEPT
            !.isTransfer = TRUE,
            !.decodedData = [decoded |-> TRUE, section |-> extrinsic.section,
                             method |-> extrinsic.method, args |-> extrinsic.args,
                             isStaking |-> TRUE]]
    ELSE transferInfo

\* lines 1064-1071, Method 3: staking calls are tagged
StakingRule(transferInfo, extrinsic) ==
  IF /\ extrinsic.section = "staking"
     /\ \E k \in 1..Len(stakingMethods) : stakingMethods[k] = extrinsic.method
    THEN [transferInfo EXCEPT
            !.decodedData = [decoded |-> TRUE, section |-> extrinsic.section,
                             method |-> extrinsic.method, args |-> extrinsic.args,
                             isStaking |-> TRUE]]
    ELSE transferInfo

\* lines 968-1074
detectTransferFromExtrinsic(extrinsic, events) ==
  StakingRule(EventRule(MethodRule(NoTransferInfo, extrinsic), events), extrinsic)

\* lines 1078-1085: the events that name a fee
isFeeEvent(e) ==
  \/ e.section = "balances" /\ e.method = "Withdraw"
  \/ e.section = "transactionPayment" /\ e.method = "TransactionFeePaid"

\* lines 1077-1098: the last data field of the first fee event
calculateTransactionFee(events) ==
  LET feeEvents == SelectSeq(events, isFeeEvent)
  IN  IF Len(feeEvents) > 0 /\ Len(feeEvents[1].data) > 0
        THEN feeEvents[1].data[Len(feeEvents[1].data)]
        ELSE "0"

\* an event phase: ApplyExtrinsic(index), or Initialization / Finalization
ApplyExtrinsic(index) == [isApplyExtrinsic |-> TRUE, asApplyExtrinsic |-> index]
Finalization == [isApplyExtrinsic |-> FALSE, asApplyExtrinsic |-> -1]

\* the filter taking every event of an extrinsic phase, whatever its index
extrinsicEventsOfAnyIndex(events, index) ==
  LET applied(e) == e.phase.isApplyExtrinsic
  IN  SelectSeq(events, applied)

\* lines 901-904 (and 1189-1192): the events of the extrinsic at an index
extrinsicEvents(events, index) ==
  LET own(e) == e.phase.isApplyExtrinsic /\ e.phase.asApplyExtrinsic = index
  IN  SelectSeq(events, own)

\* lines 907-909 (and 1195-1197)
isExtrinsicFailed(e) == e.section = "system" /\ e.method = "ExtrinsicFailed"
success(events) == ~ \E k \in 1..Len(events) : isExtrinsicFailed(events[k])

\* lines 896-949: the transaction built for one extrinsic; fee and
\* transferAmount are the strings handed to formatTxor
Transaction(extrinsic, index, events) ==
  LET own == extrinsicEvents(events, index)
      transferInfo == detectTransferFromExtrinsic(extrinsic, own)
  IN  [index |-> index,
       section |-> extrinsic.section,
       method |-> extrinsic.method,
       signer |-> IF extrinsic.signer = Undefined THEN "System" ELSE extrinsic.signer,
       success |-> success(own),
       fee |-> calculateTransactionFee(own),
       isTransfer |-> transferInfo.isTransfer,
       transferFrom |-> transferInfo.from,
       transferTo |-> transferInfo.to,
       transferAmount |-> transferInfo.amount,
       transferAsset |-> transferInfo.asset,
       events |-> own,
       decodedData |-> transferInfo.decodedData]

\* line 896: extrinsics.forEach((extrinsic, index) => ...), index from 0
BlockExtrinsics(block) ==
  [i \in 1..Len(block.extrinsics) |-> Transaction(block.extrinsics[i], i - 1, block.events)]

\* the calls of the drawn blocks
MaxBlockExtrinsics == 2
MaxEvents == 2
Call(section, method, signer, args) ==
  [section |-> section, method |-> method, signer |-> signer, args |-> args]
Extrinsics ==
  {Call("balances", transferMethods[1], "alice", <<"bob", "5">>),
   Call("balances", transferMethods[2], "alice", <<"bob", "5">>),
   Call("assets", <<"T", "r", "a", "n", "s", "f", "e", "r">>, "alice", <<"1">>),
   Call("balances", <<"f", "o", "r", "c", "e", "S", "e", "t">>, "alice", <<"bob", "5">>),
   Call("staking", stakingMethods[1], "alice", <<"9", "Staked">>),
   Call("staking", stakingMethods[6], "alice", <<>>),
   Call("staking", <<"p", "a", "y", "o", "u", "t">>, "alice", <<"bob", "3">>),
   Call("timestamp", <<"s", "e", "t">>, Undefined, <<"1700000000000">>)}

\* the events of the drawn blocks, in each phase
EventKinds ==
  {[section |-> "system", method |-> "ExtrinsicFailed", data |-> <<"BadOrigin">>],
   [section |-> "system", method |-> "ExtrinsicSuccess", data |-> <<"Normal">>],
   [section |-> "balances", method |-> "Transfer", data |-> <<"carol", "dave", "7">>],
   [section |-> "balances", method |-> "Transfer", data |-> <<"carol", "7">>],
   [section |-> "assets", method |-> "Transferred", data |-> <<"1", "erin", "frank", "8">>],
   [section |-> "balances", method |-> "Withdraw", data |-> <<"alice", "3">>]}
Phases == {ApplyExtrinsic(i) : i \in 0..(MaxBlockExtrinsics - 1)} \cup {Finalization}
Events ==
  {[phase |-> p, section |-> k.section, method |-> k.method, data |-> k.data] :
     p \in Phases, k \in EventKinds}

\* one block: its extrinsics and the events of api.query.system.events.at
InitTransfer ==
  /\ StoreCreated
  /\ chain \in [extrinsics : SeqsUpTo(Extrinsics, MaxBlockExtrinsics) \ {<<>>},
                events : SeqsUpTo(Events, MaxEvents)]
  /\ fetched = NotFetched

forEachExtrinsic ==
  /\ fetched = NotFetched
  /\ fetched' = [returned |-> TRUE, transactions |-> BlockExtrinsics(chain)]
  /\ UNCHANGED <<chain, storeVars>>

NextTransfer == forEachExtrinsic
SpecTransfer == InitTransfer /\ [][NextTransfer]_vars

\* ------------------------------------------------- findTransactionByHash
\* Hashes and the caller's input are tuples of characters.
\* String.prototype.trim
RECURSIVE trim(_)
trim(s) ==
  IF s # <<>> /\ Head(s) = " " THEN trim(Tail(s))
  ELSE IF s # <<>> /\ s[Len(s)] = " " THEN trim(SubSeq(s, 1, Len(s) - 1))
  ELSE s

\* String.prototype.startsWith
startsWith(s, t) == Len(t) <= Len(s) /\ SubSeq(s, 1, Len(t)) = t

\* String.prototype.replace with a string pattern: the first occurrence only
replace(s, t, by) ==
  IF includes(s, t)
    THEN LET at == CHOOSE first \in 1..Len(s) :
                     /\ first + Len(t) - 1 <= Len(s)
                     /\ SubSeq(s, first, first + Len(t) - 1) = t
                     /\ \A earlier \in 1..(first - 1) :
                          SubSeq(s, earlier, earlier + Len(t) - 1) # t
         IN  SubSeq(s, 1, at - 1) \o by \o SubSeq(s, at + Len(t), Len(s))
    ELSE s

HexPrefix == <<"0", "x">>

\* ext.hash.toHex(): the prefix and the lower-case digits
toHex(digits) == HexPrefix \o digits

\* the comparison without the case-insensitive alternatives
hashMatchesExactly(extHash, searchHash, normalizedHash) ==
  \/ extHash = searchHash
  \/ extHash = normalizedHash

\* lines 1168-1177: the alternatives of the findIndex callback
hashMatches(extHash, searchHash, normalizedHash) ==
  \/ extHash = searchHash
  \/ extHash = normalizedHash
  \/ toLowerCase(extHash) = toLowerCase(searchHash)
  \/ toLowerCase(extHash) = toLowerCase(normalizedHash)
  \/ extHash = replace(searchHash, HexPrefix, <<>>)
  \/ extHash = replace(normalizedHash, HexPrefix, <<>>)

\* line 1155: the loop bound
SEARCH_WINDOW == 100

\* a block of the searched chain: the hashes of its extrinsics and its events
SearchBlock(e, ev) == [hash |-> TRUE, block |-> TRUE, extrinsics |-> e, events |-> ev]
EmptyBlock == SearchBlock(<<>>, <<>>)
SearchBlockAt(answers, number) ==
  IF number \in DOMAIN answers.populated THEN answers.populated[number] ELSE EmptyBlock

\* lines 1167-1178: findIndex, 0 where JavaScript answers -1 and index + 1 otherwise
findIndex(block, searchHash, normalizedHash) ==
  LET matching == {k \in 1..Len(block.extrinsics) :
                     hashMatches(toHex(block.extrinsics[k]), searchHash, normalizedHash)}
  IN  IF matching = {} THEN 0
      ELSE CHOOSE k \in matching : \A other \in matching : k <= other

\* lines 1180-1252: the record built for the extrinsic found
TransactionDetails(block, blockNumber, at) ==
  LET own == extrinsicEvents(block.events, at - 1)
  IN  [hash |-> toHex(block.extrinsics[at]),
       blockNumber |-> blockNumber,
       index |-> at - 1,
       success |-> success(own),
       fee |-> calculateTransactionFee(own),
       events |-> own,
       error |-> IF success(own) THEN "null" ELSE "Transaction failed",
       isDecoded |-> TRUE]

Found(details) == [outcome |-> "found", details |-> details]
NotFound == [outcome |-> "null"]
Throws(message) == [outcome |-> "throws", message |-> message]

\* the search walking up from the lowest height of the window
performTransactionSearchAscending(answers, searchHash, normalizedHash) ==
  IF ~ answers.finalized THEN [result |-> Throws("getFinalizedHead failed"), examined |-> {}]
  ELSE LET latestBlockNumber == answers.height
           steps == {i \in 0..(SEARCH_WINDOW - 1) : latestBlockNumber - i >= 0}
           returns(i) ==
             LET block == SearchBlockAt(answers, latestBlockNumber - i)
             IN  /\ block.hash
                 /\ block.block
                 /\ findIndex(block, searchHash, normalizedHash) # 0
       IN  IF \E i \in steps : returns(i)
             THEN LET i == CHOOSE j \in steps : returns(j) /\ \A k \in steps : k > j => ~ returns(k)
                      blockNumber == latestBlockNumber - i
                      block == SearchBlockAt(answers, blockNumber)
                  IN  [result |-> Found(TransactionDetails(block, blockNumber,
                                          findIndex(block, searchHash, normalizedHash))),
                       examined |-> {latestBlockNumber - j : j \in {k \in steps : k >= i}}]
             ELSE [result |-> NotFound,
                   examined |-> {latestBlockNumber - j : j \in steps}]

\* lines 1138-1262: the heights are examined from the finalized one downwards,
\* at most SEARCH_WINDOW of them and none below 0 (lines 1155-1157); a height
\* whose hash, block or events cannot be fetched is passed over (lines
\* 1254-1257); the first height holding a matching extrinsic ends the search
performTransactionSearch(answers, searchHash, normalizedHash) ==
  IF ~ answers.finalized THEN [result |-> Throws("getFinalizedHead failed"), examined |-> {}]
  ELSE LET latestBlockNumber == answers.height
           steps == {i \in 0..(SEARCH_WINDOW - 1) : latestBlockNumber - i >= 0}
           returns(i) ==
             LET block == SearchBlockAt(answers, latestBlockNumber - i)
             IN  /\ block.hash
                 /\ block.block
                 /\ findIndex(block, searchHash, normalizedHash) # 0
       IN  IF \E i \in steps : returns(i)
             THEN LET i == CHOOSE j \in steps : returns(j) /\ \A k \in steps : k < j => ~ returns(k)
                      blockNumber == latestBlockNumber - i
                      block == SearchBlockAt(answers, blockNumber)
                  IN  [result |-> Found(TransactionDetails(block, blockNumber,
                                          findIndex(block, searchHash, normalizedHash))),
                       examined |-> {latestBlockNumber - j : j \in 0..i}]
             ELSE [result |-> NotFound,
                   examined |-> {latestBlockNumber - j : j \in steps}]

TimeoutMessage == "Search timeout - transaction not found in recent blocks"

\* lines 1101-1135: the input is trimmed and prefixed, and the search is raced
\* against the timer; answers.timedOut says that the timer fires first
findTransactionByHash(answers, hash) ==
  LET normalizedHash == trim(hash)
      searchHash == IF startsWith(normalizedHash, HexPrefix)
                      THEN normalizedHash
                      ELSE HexPrefix \o normalizedHash
      search == performTransactionSearch(answers, searchHash, normalizedHash)
  IN  IF answers.timedOut /\ answers.finalized
        THEN [search EXCEPT !.result = Throws(TimeoutMessage)]
        ELSE search

\* the hashes of the drawn chains and the spellings of the caller's input
TargetDigits == <<"a", "b">>
OtherDigits == <<"c", "d">>
AbsentDigits == <<"e", "f">>
Spelling(text, digits) == [text |-> text, of |-> digits]
Spellings ==
  {Spelling(<<"a", "b">>, TargetDigits),
   Spelling(<<"A", "B">>, TargetDigits),
   Spelling(<<"0", "x", "a", "b">>, TargetDigits),
   Spelling(<<"0", "x", "A", "b">>, TargetDigits),
   Spelling(<<"0", "X", "a", "b">>, TargetDigits),
   Spelling(<<"0", "X", "A", "B">>, TargetDigits),
   Spelling(<<" ", "0", "x", "a", "b", " ">>, TargetDigits),
   Spelling(<<"0", "x", "e", "f">>, AbsentDigits)}

\* the blocks that are not empty: a failed fetch, or extrinsics with the events
\* of the extrinsic at index 0
FailedAtZero == [phase |-> ApplyExtrinsic(0), section |-> "system",
                 method |-> "ExtrinsicFailed", data |-> <<"BadOrigin">>]
PopulatedBlocks ==
  {NoHash, NoBlock,
   SearchBlock(<<OtherDigits>>, <<>>),
   SearchBlock(<<TargetDigits>>, <<>>),
   SearchBlock(<<TargetDigits>>, <<FailedAtZero>>),
   SearchBlock(<<OtherDigits, TargetDigits>>, <<>>),
   SearchBlock(<<OtherDigits, TargetDigits>>, <<FailedAtZero>>)}

\* the finalized heights drawn, around the length of the window, and the
\* heights that may hold a block that is not empty, around its two ends
MaxPopulated == 2
SearchHeights == {0, 1, SEARCH_WINDOW - 1, SEARCH_WINDOW, SEARCH_WINDOW + 1}
EndHeights(H) == {H, H - 1, H - SEARCH_WINDOW + 1, H - SEARCH_WINDOW, 0} \cap 0..H

InitSearch ==
  /\ StoreCreated
  /\ chain \in
       UNION {[finalized : BOOLEAN, timedOut : BOOLEAN, height : {H},
               populated : UNION {[heights -> PopulatedBlocks] :
                                    heights \in {S \in SUBSET EndHeights(H) :
                                                   Cardinality(S) <= MaxPopulated}},
               input : Spellings] : H \in SearchHeights}
  /\ fetched = NotFetched

findByHash ==
  /\ fetched = NotFetched
  /\ fetched' = [returned |-> TRUE] @@ findTransactionByHash(chain, chain.input.text)
  /\ UNCHANGED <<chain, storeVars>>

NextSearch == findByHash
SpecSearch == InitSearch /\ [][NextSearch]_vars

\* ----------------------------------------------- fetchTransactionDetails
\* lines 514-552
NotConnectedMessage == "Not connected to network"
NotFoundMessage == "Transaction not found"

\* line 538: retry
DETAILS_RETRY == 3

\* the hashes looked up: one the chain holds and one it does not
DetailHashes == {<<"0", "x", "a", "b">>, <<"0", "x", "e", "f">>}

\* what the chain may answer to one run of the query function: the block at the
\* finalized height 0 holds the first hash; or the finalized head cannot be
\* read; or the search outlasts the timer
HoldsTarget ==
  [finalized |-> TRUE, timedOut |-> FALSE, height |-> 0,
   populated |-> [n \in {0} |-> SearchBlock(<<TargetDigits>>, <<>>)]]
HeadFails == [HoldsTarget EXCEPT !.finalized = FALSE]
TimesOut == [HoldsTarget EXCEPT !.timedOut = TRUE]

\* a handle that cleanupConnection disconnected answers no request
DetailAnswers(l) ==
  IF lookups[l].live THEN {HoldsTarget, HeadFails, TimesOut} ELSE {HeadFails, TimesOut}

\* lines 514-530: the guard, and the two writes before the query is awaited;
\* a fresh cache entry or a running query of the same hash answers the call with
\* the result of a run of the query function, as a query of its own does
FetchTransactionDetails(l, hash) ==
  /\ UserMay
  /\ lookups[l].pc = "idle"
  /\ IF api = Null \/ status # "connected"
       THEN /\ detailsError' = NotConnectedMessage
            /\ UNCHANGED <<transactionDetails, isDetailsLoading, lookups>>
       ELSE /\ isDetailsLoading' = TRUE
            /\ detailsError' = NoError
            /\ lookups' = [lookups EXCEPT ![l] =
                 [pc |-> "awaiting", hash |-> hash, live |-> api \in provOpen,
                  failureCount |-> 0]]
            /\ UNCHANGED transactionDetails
  /\ sync' = (microQ # <<>>)
  /\ UNCHANGED <<apiState, api, isLoading, isFetching, networkMetrics, queryApi,
                 txState, txApi, superseded, chainVars, walletVars, currentProvider,
                 healthCheckInterval, reconnectTimeout, currentEndpointIndex,
                 retryDelay, intervals, timers, provOpen, closing, calls, probes, rc,
                 microQ, lastArmed>>

\* lines 533-539: a run of the query function throws and the query client runs
\* it again, DETAILS_RETRY times at most
DetailsQueryRetries(l, answers) ==
  /\ TaskMay
  /\ lookups[l].pc = "awaiting"
  /\ answers \in DetailAnswers(l)
  /\ findTransactionByHash(answers, lookups[l].hash).result.outcome = "throws"
  /\ lookups[l].failureCount < DETAILS_RETRY
  /\ lookups' = [lookups EXCEPT ![l].failureCount = @ + 1]
  /\ sync' = FALSE
  /\ UNCHANGED <<apiState, api, isLoading, isFetching, networkMetrics, queryApi,
                 txState, txApi, superseded, chainVars, walletVars, detailsState, walletState, currentProvider,
                 healthCheckInterval, reconnectTimeout, currentEndpointIndex,
                 retryDelay, intervals, timers, provOpen, closing, calls, probes, rc,
                 microQ, lastArmed>>

\* lines 541-551: what the call writes once the query has settled
DetailsEnd(result) ==
  /\ transactionDetails' = IF result.outcome = "found" THEN result.details
                                                       ELSE transactionDetails
  /\ detailsError' = CASE result.outcome = "found" -> detailsError
                       [] result.outcome = "null" -> NotFoundMessage
                       [] OTHER -> result.message
  /\ isDetailsLoading' = FALSE

\* lines 533-551: the query settles, with a result or with the error of its last
\* run, and the call ends
DetailsQueryReturns(l, answers) ==
  /\ TaskMay
  /\ lookups[l].pc = "awaiting"
  /\ answers \in DetailAnswers(l)
  /\ LET result == findTransactionByHash(answers, lookups[l].hash).result
     IN  /\ result.outcome = "throws" => lookups[l].failureCount = DETAILS_RETRY
         /\ DetailsEnd(result)
  /\ lookups' = [lookups EXCEPT ![l] = IdleLookup]
  /\ sync' = FALSE
  /\ UNCHANGED <<apiState, api, isLoading, isFetching, networkMetrics, queryApi,
                 txState, txApi, superseded, chainVars, walletVars, currentProvider,
                 healthCheckInterval, reconnectTimeout, currentEndpointIndex,
                 retryDelay, intervals, timers, provOpen, closing, calls, probes, rc,
                 microQ, lastArmed>>

\* the lookups next to the connection's life cycle: the caller connects,
\* disconnects and looks transactions up; every endpoint attempt succeeds
NextDetails ==
  \/ Connect
  \/ Disconnect
  \/ \E c \in Calls : ConnectResume(c)
  \/ \E r \in {0, 1} : DisconnectFinish(r)
  \/ \E c \in Calls : AttemptSucceeds(c)
  \/ \E l \in Lookups, hash \in DetailHashes : FetchTransactionDetails(l, hash)
  \/ \E l \in Lookups, answers \in {HoldsTarget, HeadFails, TimesOut} :
       DetailsQueryRetries(l, answers)
  \/ \E l \in Lookups, answers \in {HoldsTarget, HeadFails, TimesOut} :
       DetailsQueryReturns(l, answers)
SpecDetails == Init /\ [][NextDetails]_vars

\* --------------------------------- WalletConnection: the balance effect
\* src/src/components/LandingHero.tsx, lines 778-843.  React runs the effect
\* after the mount and after every commit that changed one of its
\* dependencies (line 843), the cleanup of the previous run first.  A reply of
\* the chain may be delivered between the change and that commit; the user
\* acts again only after it.
CurrentDeps == <<api, status, selectedAccount, modalOpen>>
EffectsFlushed == ~ mounted \/ effect.deps = CurrentDeps

\* the queries awaiting a reply
QueriesInFlight(queries) == {c \in Controllers : queries[c].pc \in {"system", "balances"}}

\* AbortController.abort() on the controller a reference holds
abort(queries, ref) ==
  [c \in Controllers |-> IF c = ref THEN [queries[c] EXCEPT !.aborted = TRUE]
                                     ELSE queries[c]]

\* a cleanup that leaves the controller alone
cleanupAbortingNothing(queries) == queries

\* lines 838-842: the cleanup the effect returns
cleanup(queries) == abort(queries, balanceAbortControllerRef)

\* the controllers not yet created
FreeControllers == {c \in Controllers : balanceQueries[c].pc = "none"}
NewController == CHOOSE c \in FreeControllers : \A d \in FreeControllers : c <= d

\* lines 780-843: one run of the effect, after the cleanup of the run before
BalanceEffect ==
  /\ mounted
  /\ effect.deps # CurrentDeps
  /\ supersededQueries' = supersededQueries \cup QueriesInFlight(balanceQueries)
  /\ LET cleaned == IF effect.cleanup THEN cleanup(balanceQueries) ELSE balanceQueries
     IN  IF api # Null /\ status = "connected" /\ selectedAccount # Null /\ modalOpen
           THEN IF balanceCache[selectedAccount].fresh
                  THEN \* lines 782-786: the cached balance, and no cleanup returned
                       /\ balance' = balanceCache[selectedAccount].balance
                       /\ effect' = [deps |-> CurrentDeps, cleanup |-> FALSE]
                       /\ balanceQueries' = cleaned
                       /\ UNCHANGED balanceAbortControllerRef
                  ELSE \* lines 788-795: a new controller and the query under it
                       /\ FreeControllers # {}
                       /\ balanceAbortControllerRef' = NewController
                       /\ balanceQueries' =
                            [abort(cleaned, balanceAbortControllerRef)
                               EXCEPT ![NewController] =
                                 [pc |-> "system", account |-> selectedAccount,
                                  aborted |-> FALSE, live |-> api \in provOpen,
                                  answer |-> NoBalance]]
                       /\ effect' = [deps |-> CurrentDeps, cleanup |-> TRUE]
                       /\ UNCHANGED balance
           ELSE /\ effect' = [deps |-> CurrentDeps, cleanup |-> TRUE]
                /\ balanceQueries' = cleaned
                /\ UNCHANGED <<balance, balanceAbortControllerRef>>
  /\ UNCHANGED <<selectedAccount, modalOpen, mounted, balanceCache>>
  /\ UNCHANGED <<apiState, api, isLoading, isFetching, networkMetrics, queryApi,
                 txState, txApi, superseded, chainVars, detailVars, currentProvider,
                 healthCheckInterval, reconnectTimeout, currentEndpointIndex,
                 retryDelay, intervals, timers, provOpen, closing, calls, probes, rc,
                 microQ, sync, lastArmed>>

\* what the actions of the panel leave alone
panelLeaves ==
  UNCHANGED <<apiState, api, isLoading, isFetching, networkMetrics, queryApi,
              txState, txApi, superseded, chainVars, detailVars, currentProvider,
              healthCheckInterval, reconnectTimeout, currentEndpointIndex,
              retryDelay, intervals, timers, provOpen, closing, calls, probes, rc,
              microQ, sync, lastArmed>>

\* handleAccountSelect, line 885: the user picks an account
SelectAccount(a) ==
  /\ TaskMay /\ mounted /\ EffectsFlushed
  /\ a # selectedAccount
  /\ selectedAccount' = a
  /\ UNCHANGED <<balance, modalOpen, mounted, balanceCache, balanceAbortControllerRef,
                 effect, balanceQueries, supersededQueries>>
  /\ panelLeaves

\* disconnectWallet, lines 587-591
DisconnectWallet ==
  /\ TaskMay /\ mounted /\ EffectsFlushed
  /\ selectedAccount # Null
  /\ selectedAccount' = Null
  /\ balance' = NoBalance
  /\ UNCHANGED <<modalOpen, mounted, balanceCache, balanceAbortControllerRef, effect,
                 balanceQueries, supersededQueries>>
  /\ panelLeaves

\* line 1002: the dialog opens or closes
SetModalOpen(open) ==
  /\ TaskMay /\ mounted /\ EffectsFlushed
  /\ open # modalOpen
  /\ modalOpen' = open
  /\ UNCHANGED <<selectedAccount, balance, mounted, balanceCache,
                 balanceAbortControllerRef, effect, balanceQueries, supersededQueries>>
  /\ panelLeaves

\* the component unmounts: React runs the cleanup of the last run
Unmount ==
  /\ TaskMay /\ mounted /\ EffectsFlushed
  /\ mounted' = FALSE
  /\ balanceQueries' = IF effect.cleanup THEN cleanup(balanceQueries) ELSE balanceQueries
  /\ supersededQueries' = supersededQueries \cup QueriesInFlight(balanceQueries)
  /\ UNCHANGED <<selectedAccount, balance, modalOpen, balanceCache,
                 balanceAbortControllerRef, effect>>
  /\ panelLeaves

\* line 783: five seconds pass since an entry of the cache was written
CacheAges(a) ==
  /\ TaskMay
  /\ balanceCache[a].fresh
  /\ balanceCache' = [balanceCache EXCEPT ![a].fresh = FALSE]
  /\ UNCHANGED <<selectedAccount, balance, modalOpen, mounted,
                 balanceAbortControllerRef, effect, balanceQueries, supersededQueries>>
  /\ panelLeaves

\* the free balances the chain may report for an account
FreeBalances(a) == {"0", <<"15", "25">>[a]}

\* lines 821-830: the second then, over the signal and the final balance
Finalize(c, finalBalance) ==
  IF ~ balanceQueries[c].aborted /\ finalBalance # NoBalance
    THEN /\ balance' = finalBalance
         /\ balanceCache' = [balanceCache EXCEPT ![balanceQueries[c].account] =
                               [balance |-> finalBalance, fresh |-> TRUE]]
    ELSE UNCHANGED <<balance, balanceCache>>

\* lines 795-820: system.account answers; a balance of "0" is asked again of
\* balances.account where the chain has that query (alternative)
SystemAccountAnswers(c, free, alternative) ==
  /\ TaskMay
  /\ balanceQueries[c].pc = "system"
  /\ balanceQueries[c].live
  /\ free \in FreeBalances(balanceQueries[c].account)
  /\ IF ~ balanceQueries[c].aborted /\ free = "0" /\ alternative
       THEN /\ balanceQueries' = [balanceQueries EXCEPT ![c].pc = "balances",
                                                         ![c].answer = free]
            /\ UNCHANGED <<balance, balanceCache>>
       ELSE /\ balanceQueries' = [balanceQueries EXCEPT ![c].pc = "done",
                                                         ![c].answer = free]
            /\ Finalize(c, IF balanceQueries[c].aborted THEN NoBalance ELSE free)
  /\ UNCHANGED <<selectedAccount, modalOpen, mounted, balanceAbortControllerRef,
                 effect, supersededQueries>>
  /\ panelLeaves

\* lines 831-835: system.account rejects
SystemAccountFails(c) ==
  /\ TaskMay
  /\ balanceQueries[c].pc = "system"
  /\ balanceQueries' = [balanceQueries EXCEPT ![c].pc = "done"]
  /\ UNCHANGED <<selectedAccount, balance, modalOpen, mounted, balanceCache,
                 balanceAbortControllerRef, effect, supersededQueries>>
  /\ panelLeaves

\* lines 809-813: balances.account answers
BalancesAccountAnswers(c, free) ==
  /\ TaskMay
  /\ balanceQueries[c].pc = "balances"
  /\ balanceQueries[c].live
  /\ free \in FreeBalances(balanceQueries[c].account)
  /\ balanceQueries' = [balanceQueries EXCEPT ![c].pc = "done", ![c].answer = free]
  /\ Finalize(c, free)
  /\ UNCHANGED <<selectedAccount, modalOpen, mounted, balanceAbortControllerRef,
                 effect, supersededQueries>>
  /\ panelLeaves

\* line 814: balances.account rejects, the first balance stands
BalancesAccountFails(c) ==
  /\ TaskMay
  /\ balanceQueries[c].pc = "balances"
  /\ balanceQueries' = [balanceQueries EXCEPT ![c].pc = "done"]
  /\ Finalize(c, balanceQueries[c].answer)
  /\ UNCHANGED <<selectedAccount, modalOpen, mounted, balanceAbortControllerRef,
                 effect, supersededQueries>>
  /\ panelLeaves

\* the wallet panel next to the connection's life cycle: the caller connects,
\* again and again, and every endpoint attempt succeeds
NextWallet ==
  \/ Connect
  \/ \E c \in Calls : ConnectResume(c)
  \/ \E c \in Calls : AttemptSucceeds(c)
  \/ BalanceEffect
  \/ \E a \in Accounts : SelectAccount(a)
  \/ DisconnectWallet
  \/ \E open \in BOOLEAN : SetModalOpen(open)
  \/ Unmount
  \/ \E a \in Accounts : CacheAges(a)
  \/ \E c \in Controllers, free \in {"0", "15", "25"}, alternative \in BOOLEAN :
       SystemAccountAnswers(c, free, alternative)
  \/ \E c \in Controllers : SystemAccountFails(c)
  \/ \E c \in Controllers, free \in {"0", "15", "25"} : BalancesAccountAnswers(c, free)
  \/ \E c \in Controllers : BalancesAccountFails(c)
SpecWallet == Init /\ [][NextWallet]_vars

\* ================================================================ claims
InFlight == {c \in Calls : calls[c].pc # "idle"}

\* what connect() can write before its first await
ConnectionState ==
  <<apiState, api, isLoading, isFetching, currentProvider, healthCheckInterval,
    reconnectTimeout, intervals, timers, provOpen, closing, calls, probes, microQ>>

\* C1: connect() invoked while status is 'connecting' is a no-op: no call begins (so
\* no provider is created for it), connectionAttempts is not incremented and no
\* connection state changes; two connect() calls issued back-to-back from
\* 'disconnected' leave exactly one connection attempt in flight.
C1_ConnectWhileConnectingIsNoOp ==
  [][/\ status = "connecting" =>
          /\ \A c \in Calls : calls[c].pc = "idle" => calls'[c].pc = "idle"
          /\ apiState'.connectionAttempts <= apiState.connectionAttempts
          /\ Connect => UNCHANGED ConnectionState
     /\ (status = "disconnected" /\ InFlight = {} /\ Connect)
          => /\ Cardinality(InFlight') = 1
             /\ apiState'.connectionAttempts = apiState.connectionAttempts + 1
    ]_vars

\* the caller is still in the task that called connect() from 'disconnected': a
\* second connect() now is the back-to-back call
C1_Witness ==
  /\ sync /\ status = "connecting"
  /\ Cardinality(InFlight) = 1
  /\ apiState.connectionAttempts = 1
  /\ provOpen = {}

Quiescent ==
  /\ apiState = InitialApiState
  /\ api = Null
  /\ ~healthCheckInterval /\ intervals = 0
  /\ ~reconnectTimeout /\ timers = 0

\* C3: when disconnect() completes, status is 'disconnected', api is null, apiState
\* has its initial value and no interval or timer is pending; from then on only the
\* caller's next connect() changes the connection state (no callback in flight, no
\* provider event, no timer, no second disconnect() does).
C3_DisconnectIsFinal ==
  [][/\ (\E r \in {0, 1} : DisconnectFinish(r)) => Quiescent'
     /\ (Quiescent /\ ~Connect) => Quiescent'
    ]_vars

AllowedTransitions ==
  {<<"disconnected", "connecting">>, <<"connecting", "connected">>,
   <<"connecting", "error">>, <<"connected", "degraded">>, <<"degraded", "connected">>,
   <<"connected", "error">>, <<"degraded", "error">>, <<"error", "connecting">>}
  \cup {<<s, "disconnected">> : s \in {"connecting", "connected", "degraded", "error"}}

\* C4: every change of apiState.status is a transition of the connection state
\* machine: disconnected->connecting, connecting->connected, connecting->error,
\* connected<->degraded, connected/degraded->error, error->connecting, or any
\* state->disconnected.
C4_OnlyStateMachineTransitions ==
  [][status' # status => <<status, status'>> \in AllowedTransitions]_vars

CallBegins == \E c \in Calls : calls[c].pc = "idle" /\ calls'[c].pc = "hop"

\* C5: connectionAttempts counts the connect cycles begun since the caller's last
\* disconnect() (each cycle adds one, nothing else lowers it); once it has reached
\* MAX_RETRIES no reconnect timer is pending, scheduleReconnect arms none, and no
\* connect() cycle begins unless the caller invokes connect().
C5_NoAutoReconnectAfterMaxRetries ==
  /\ [](apiState.connectionAttempts >= MAX_RETRIES => ~reconnectTimeout /\ timers = 0)
  /\ [][/\ CallBegins => apiState'.connectionAttempts = apiState.connectionAttempts + 1
        /\ apiState'.connectionAttempts < apiState.connectionAttempts
             => \E r \in {0, 1} : DisconnectFinish(r)
        /\ (apiState.connectionAttempts >= MAX_RETRIES /\ CallBegins)
             => Connect
       ]_vars

\* the fifth cycle in a row has failed, four timers were armed on the way, and
\* scheduleReconnect has armed none
C5_Witness ==
  /\ apiState.connectionAttempts = MAX_RETRIES
  /\ status = "error" /\ apiState.lastError = AllFailed
  /\ InFlight = {}
  /\ lastArmed = 8 * INITIAL_RETRY_DELAY
  /\ ~reconnectTimeout /\ timers = 0

\* C6: every delay a reconnect timer is armed with lies in
\* [INITIAL_RETRY_DELAY, MAX_RETRY_DELAY]; the first one armed after a successful
\* connection (or after start) is INITIAL_RETRY_DELAY, and each later one is
\* min(2 x previous, MAX_RETRY_DELAY), so the sequence never decreases.
C6_BackoffDelays ==
  [][timers' > timers =>
       /\ lastArmed' >= INITIAL_RETRY_DELAY /\ lastArmed' <= MAX_RETRY_DELAY
       /\ lastArmed = 0 => lastArmed' = INITIAL_RETRY_DELAY
       /\ lastArmed # 0 => /\ lastArmed' = Min2(2 * lastArmed, MAX_RETRY_DELAY)
                           /\ lastArmed' >= lastArmed
    ]_vars

\* a timer is pending that was armed with the ceiling, reached by doubling
C6_Witness ==
  /\ reconnectTimeout /\ timers = 1
  /\ lastArmed = MAX_RETRY_DELAY
  /\ retryDelay = MAX_RETRY_DELAY

\* C7: when an endpoint attempt of connect() succeeds, the call returns with status
\* 'connected', apiState.endpoint the endpoint just attempted, lastError null, the
\* store's api the client over the provider of this attempt (still open), retryDelay
\* reset to INITIAL_RETRY_DELAY and exactly one health-check interval running; no
\* further endpoint is attempted (no provider is created, the call is over).
C7_SuccessPostState ==
  [][\A c \in Calls :
       (calls[c].pc = "await" /\ calls'[c].pc = "idle") =>
         /\ status' = "connected"
         /\ Len(calls[c].tried) = calls[c].i + 1
         /\ apiState'.endpoint = calls[c].tried[Len(calls[c].tried)]
         /\ apiState'.lastError = NoError
         /\ api' = calls[c].prov /\ api' \in provOpen'
         /\ retryDelay' = INITIAL_RETRY_DELAY
         /\ healthCheckInterval' /\ intervals' = 1
         /\ provOpen' = provOpen
    ]_vars

\* a call without an explicit endpoint has connected to the second endpoint
C7_Witness ==
  /\ status = "connected" /\ api \in provOpen
  /\ apiState.endpoint = ENDPOINTS[2] /\ currentEndpointIndex = 1
  /\ apiState.lastError = NoError
  /\ healthCheckInterval /\ intervals = 1
  /\ isFetching /\ ~isLoading
  /\ InFlight = {}

\* C8: when every endpoint attempt of a connect() call has failed, the call returns
\* with status 'error', lastError non-null, isLoading false, no open provider and,
\* if connectionAttempts < MAX_RETRIES, exactly one reconnect timer armed.
C8_AllFailedPostState ==
  [][\A c \in Calls :
       (calls[c].pc = "hop" /\ calls'[c].pc = "idle") =>
         /\ status' = "error"
         /\ apiState'.lastError # NoError
         /\ ~isLoading'
         /\ provOpen' = {}
         /\ apiState'.connectionAttempts < MAX_RETRIES => reconnectTimeout' /\ timers' = 1
    ]_vars

\* a call has failed on every endpoint and its timer is pending
C8_Witness ==
  /\ status = "error" /\ apiState.lastError = AllFailed
  /\ ~isLoading
  /\ InFlight = {} /\ provOpen = {}
  /\ apiState.connectionAttempts < MAX_RETRIES
  /\ reconnectTimeout /\ timers = 1

\* the endpoints a call without an explicit endpoint has attempted so far are
\* ENDPOINTS[start], ENDPOINTS[start + 1], ... cyclically, at most NumEndpoints of them
CyclicFromStart(c) ==
  /\ Len(calls[c].tried) <= NumEndpoints
  /\ \A j \in 1..Len(calls[c].tried) :
       calls[c].tried[j] = ENDPOINTS[((calls[c].start + j - 1) % NumEndpoints) + 1]

\* C9: a connect() call without an explicit endpoint attempts the endpoints in
\* cyclic order from the endpoint index current at its first attempt, each at most
\* once; each firing of the reconnect timer advances the index by one modulo the
\* number of endpoints before it calls connect().
C9_CyclicEndpointOrder ==
  /\ [](\A c \in Calls : calls[c].ep = NoEndpoint => CyclicFromStart(c))
  /\ [][/\ \A c \in Calls :
             (calls[c].ep = NoEndpoint /\ calls[c].tried = <<>> /\ calls'[c].tried # <<>>)
               => calls'[c].start = currentEndpointIndex
        /\ ReconnectTimerFires
             => currentEndpointIndex' = (currentEndpointIndex + 1) % NumEndpoints
       ]_vars

\* a call that began at the second endpoint has wrapped round to the first
C9_Witness ==
  \E c \in Calls :
    /\ calls[c].ep = NoEndpoint
    /\ calls[c].start = 1
    /\ calls[c].tried = <<ENDPOINTS[2], ENDPOINTS[1]>>

\* the status a tick is to write, decided from the status `now`
HealthDecision(now, latency) ==
  IF latency > MAX_LATENCY /\ now = "connected" THEN "degraded"
  ELSE IF latency <= MAX_LATENCY /\ now = "degraded" THEN "connected"
  ELSE now

\* C10: a health-check tick that completes while status is 'connected' or 'degraded'
\* sets 'degraded' for latency > MAX_LATENCY on 'connected', 'connected' for latency
\* <= MAX_LATENCY on 'degraded', and leaves status unchanged otherwise: the decision
\* uses the status at the moment the result is committed.
C10_HealthDecisionAtCommit ==
  [][\A k \in Probes, latency \in Latencies :
       (ProbeAnswers(k, latency) /\ status \in {"connected", "degraded"})
         => status' = HealthDecision(status, latency)
    ]_vars

\* C11: a health-check probe that throws while status is 'connected' or 'degraded'
\* sets status 'error' and records lastError; it arms one reconnect timer with the
\* current backoff delay (doubling it up to the ceiling, as a failed connect cycle
\* does) unless a timer is pending or connectionAttempts has reached MAX_RETRIES, in
\* which case it arms none.
C11_ProbeFailureSchedulesReconnect ==
  [][\A k \in Probes :
       (ProbeFails(k) /\ status \in {"connected", "degraded"}) =>
         /\ status' = "error"
         /\ apiState'.lastError = ErrMessage
         /\ IF ~reconnectTimeout /\ apiState.connectionAttempts < MAX_RETRIES
              THEN /\ reconnectTimeout' /\ timers' = timers + 1
                   /\ lastArmed' = retryDelay
                   /\ retryDelay' = Min2(2 * retryDelay, MAX_RETRY_DELAY)
              ELSE UNCHANGED <<reconnectTimeout, timers, retryDelay, lastArmed>>
    ]_vars

\* a probe has answered once and a later one has thrown: the connection is still
\* up, status is 'error' and the reconnect timer is pending
C11_Witness ==
  /\ status = "error" /\ apiState.lastError = ErrMessage
  /\ apiState.latency # Null
  /\ api \in provOpen /\ intervals = 1
  /\ \A k \in Probes : probes[k].pc = "idle"
  /\ reconnectTimeout /\ timers = 1 /\ lastArmed = INITIAL_RETRY_DELAY

\* C12: a health-check tick that fires while status is 'disconnected', 'connecting'
\* or 'error', or while the api handle is null, issues no probe and leaves apiState
\* and all timers unchanged.
C12_TickOutsideConnectedIsNoOp ==
  [][(HealthTick /\ (api = Null \/ status \in {"disconnected", "connecting", "error"}))
       => UNCHANGED <<apiState, probes, healthCheckInterval, intervals,
                      reconnectTimeout, timers, retryDelay>>
    ]_vars

\* the interval is running, the api handle is set and status is 'error': the next
\* tick finds nothing to probe
C12_Witness ==
  /\ intervals = 1 /\ api \in provOpen
  /\ status = "error"
  /\ microQ = <<>>
  /\ \A k \in Probes : probes[k].pc = "idle"

\* C13: reconnect() records apiState.endpoint, performs disconnect() (teardown, then
\* the reset of apiState and api, after which the pause begins), and when the pause
\* is over calls connect() once with the recorded endpoint (without argument if none
\* was recorded); during the pause no connect() begins unless the caller calls it.
C13_ReconnectSequence ==
  [][/\ (rc.pc = "idle" /\ rc'.pc = "disc")
          => /\ rc'.ep = apiState.endpoint
             /\ provOpen' = {} /\ timers' = 0 /\ intervals' = 0
     /\ (rc.pc = "disc" /\ rc'.pc # "disc")
          => rc'.pc = "pause" /\ rc'.ep = rc.ep /\ apiState' = InitialApiState /\ api' = Null
     /\ (rc.pc = "pause" /\ rc'.pc # "pause")
          => /\ rc'.pc = "idle"
             /\ status # "connecting" =>
                  /\ Cardinality({c \in Calls : calls[c].pc = "idle" /\ calls'[c].pc = "hop"}) = 1
                  /\ \A c \in Calls : (calls[c].pc = "idle" /\ calls'[c].pc = "hop")
                                         => calls'[c].ep = rc.ep
     /\ (rc.pc = "pause" /\ rc'.pc = "pause" /\ CallBegins) => Connect
    ]_vars

\* the connection was up on the second endpoint when reconnect() was called; the
\* pause is over and connect(endpoint) is attempting that endpoint
C13_Witness ==
  /\ rc.pc = "idle"
  /\ status = "connecting"
  /\ \E c \in Calls : /\ calls[c].pc = "await"
                       /\ calls[c].ep = ENDPOINTS[2]
                       /\ calls[c].tried = <<ENDPOINTS[2]>>

\* C14: a fetchNetworkData or fetchTransactionData call that started on one handle
\* and is still awaiting when that handle is torn down or replaced does not commit
\* its result: when it returns, networkMetrics and transactionData stay as they are.
C14_SupersededFetchCommitsNothing ==
  [][/\ (FetchSucceeds /\ "networkData" \in superseded) => UNCHANGED networkMetrics
     /\ \A data \in {FetchedTransactions, NoTransactions} :
          (TransactionFetchReturns(data) /\ "transactionData" \in superseded)
            => UNCHANGED transactionData
    ]_vars

\* C15: fetchNetworkData invoked while api is null or status is not 'connected' is
\* a no-op: it starts no query and leaves networkMetrics (with chartData and
\* stakingData, written together with it) and apiState unchanged; it only sets
\* isFetching to false.
C15_FetchWhenNotConnectedIsNoOp ==
  [][(FetchNetworkData /\ (api = Null \/ status # "connected"))
       => /\ ~isFetching'
          /\ UNCHANGED <<networkMetrics, apiState, queryApi, api>>
    ]_vars

\* the call was made with a client at hand whose status is 'error': isFetching is
\* false although the query that connect() started is still running
C15_Witness ==
  /\ status = "error"
  /\ api \in provOpen
  /\ queryApi = api
  /\ ~isFetching
  /\ networkMetrics = DEFAULT_METRICS
  /\ microQ = <<>>

\* C16: when the metrics query fails or its timeout wins, fetchNetworkData returns
\* normally with the failure message in apiState.lastError, networkMetrics and
\* status as they were, and isFetching false.
C16_FetchFailureIsRecorded ==
  [][FetchFails
       => /\ apiState'.lastError = ErrMessage
          /\ status' = status
          /\ UNCHANGED networkMetrics
          /\ ~isFetching'
    ]_vars

\* the failure of the query was recorded on a healthy connection: nothing has
\* scheduled a reconnect since connect() succeeded
C16_Witness ==
  /\ status = "connected"
  /\ apiState.lastError = ErrMessage
  /\ apiState.connectionAttempts = 1
  /\ lastArmed = 0 /\ ~reconnectTimeout
  /\ api \in provOpen
  /\ queryApi = Null
  /\ ~isFetching
  /\ networkMetrics = DEFAULT_METRICS

\* C17: for every validator set the chain returns, networkHealth is
\* validatorsOnline / totalValidators * 100 rounded to the nearest integer, it lies
\* within [0,100] and is exactly 0 when totalValidators is 0; validatorsOnline
\* never exceeds totalValidators.
C17_NetworkHealthInRange ==
  fetched # NotFetched =>
    LET online == fetched.validatorsOnline
        total == fetched.totalValidators
        health == fetched.networkHealth
    IN  /\ total = Len(chain.validatorsEntries)
        /\ online = Cardinality({i \in 1..total : chain.validatorsEntries[i] # "true"})
        /\ online <= total
        /\ health \in 0..100
        /\ total = 0 => health = 0
        /\ total > 0 => /\ 2 * health * total <= 200 * online + total
                        /\ 200 * online + total < 2 * (health + 1) * total

\* two of three validators are online, one of them with no blocked flag: 66.67 is
\* rounded to 67
C17_Witness ==
  /\ fetched # NotFetched
  /\ chain.validatorsEntries = <<"undefined", "true", "false">>
  /\ fetched.validatorsOnline = 2
  /\ fetched.totalValidators = 3
  /\ fetched.networkHealth = 67

\* the sum of two numbers written in decimal digits, digit by digit from the right
Digit(n, k) == IF k < Len(n) THEN n[Len(n) - k] ELSE 0
RECURSIVE DecimalAddFrom(_, _, _, _)
DecimalAddFrom(a, b, k, carry) ==
  IF k >= Len(a) /\ k >= Len(b)
    THEN IF carry = 0 THEN <<>> ELSE <<carry>>
    ELSE LET d == Digit(a, k) + Digit(b, k) + carry
         IN  Append(DecimalAddFrom(a, b, k + 1, d \div 10), d % 10)
DecimalAdd(a, b) == DecimalAddFrom(a, b, 0, 0)

RECURSIVE ActiveStakeSum(_)
ActiveStakeSum(ledgers) ==
  IF ledgers = <<>> THEN <<0>>
  ELSE LET rest == ActiveStakeSum(Tail(ledgers))
       IN  IF Head(ledgers).isSome THEN DecimalAdd(Head(ledgers).active, rest) ELSE rest

\* C18: the total value locked, as handed to the formatter, is the exact integer
\* sum of the active stake of every ledger entry that is present, an absent ledger
\* counting 0, whatever the magnitude of the stakes.
C18_TotalValueLockedIsExactSum ==
  fetched # NotFetched =>
    fetched.totalValueLocked = ActiveStakeSum(chain.stakingLedgers)

\* two stakes of 2^53 + 1 and an absent ledger: the sum 18014398509481986 is odd
\* in its half, so no double holds it
C18_Witness ==
  /\ fetched # NotFetched
  /\ chain.stakingLedgers =
       << [isSome |-> TRUE,
           active |-> <<9, 0, 0, 7, 1, 9, 9, 2, 5, 4, 7, 4, 0, 9, 9, 3>>],
          NoLedger,
          [isSome |-> TRUE,
           active |-> <<9, 0, 0, 7, 1, 9, 9, 2, 5, 4, 7, 4, 0, 9, 9, 3>>] >>
  /\ fetched.totalValueLocked = <<1, 8, 0, 1, 4, 3, 9, 8, 5, 0, 9, 4, 8, 1, 9, 8, 6>>

\* the heights of the window whose hash and block the chain delivers
Delivered(answers, numbers) ==
  SelectSeq(numbers, LAMBDA n : /\ BlockAt(answers, n).hash
                                /\ BlockAt(answers, n).block
                                /\ BlockAt(answers, n).timestamp)

\* C19: with finalized height H the heights asked for are exactly those from H down
\* to max(0, H - 4), in descending order: none is negative, and for H < 4 there
\* are H + 1 of them; the block records follow the delivered ones in that order.
C19_WindowOfRecentHeights ==
  (fetched # NotFetched /\ chain.finalized) =>
    LET H == chain.height
        lowest == IF H > 4 THEN H - 4 ELSE 0
        requested == fetched.requested
    IN  /\ Len(requested) = H - lowest + 1
        /\ \A i \in 1..Len(requested) : requested[i] = H - (i - 1) /\ requested[i] >= 0
        /\ H < 4 => Len(requested) = H + 1
        /\ [i \in 1..Len(fetched.blocks) |-> fetched.blocks[i].height]
             = Delivered(chain, requested)

\* finalized height 2: the window is clamped at zero, three heights are processed
C19_Witness ==
  /\ fetched # NotFetched
  /\ chain.finalized /\ chain.height = 2
  /\ fetched.requested = <<2, 1, 0>>
  /\ Len(fetched.blocks) = 3
  /\ fetched.blocks[3].height = 0

\* the blocks of the window that are delivered and none of whose extrinsics fails
ProcessedHeights ==
  {n \in 0..chain.height :
     /\ \E i \in 1..Len(fetched.requested) : fetched.requested[i] = n
     /\ BlockAt(chain, n).hash /\ BlockAt(chain, n).block
     /\ BlockAt(chain, n).timestamp
     /\ \A j \in 1..Len(BlockAt(chain, n).extrinsics) :
          BlockAt(chain, n).extrinsics[j] = "ok"}

\* C20: each successfully processed block yields exactly one block record, whose
\* txCount is the number of its extrinsics, and exactly one transaction for each
\* of its extrinsics: none and txCount 0 for a block without extrinsics.
C20_OneRecordPerBlockOneTransactionPerExtrinsic ==
  (fetched # NotFetched /\ chain.finalized) =>
    \A n \in ProcessedHeights :
      LET count == Len(BlockAt(chain, n).extrinsics)
          records == {i \in 1..Len(fetched.blocks) : fetched.blocks[i].height = n}
          txs == {i \in 1..Len(fetched.transactions) :
                    fetched.transactions[i].blockNumber = n}
      IN  /\ Cardinality(records) = 1
          /\ \A i \in records : fetched.blocks[i].txCount = count
          /\ Cardinality(txs) = count
          /\ \A k \in 0..(count - 1) :
               Cardinality({i \in txs : fetched.transactions[i].index = k}) = 1

\* the head block has two extrinsics and the one below it none
C20_Witness ==
  /\ fetched # NotFetched
  /\ chain.finalized /\ chain.height = 1
  /\ chain.blocks[2] = Block(<<"ok", "ok">>)
  /\ chain.blocks[1] = Block(<<>>)
  /\ fetched.blocks = <<[height |-> 1, txCount |-> 2], [height |-> 0, txCount |-> 0]>>
  /\ fetched.transactions =
       <<[blockNumber |-> 1, index |-> 0], [blockNumber |-> 1, index |-> 1]>>

\* C21: a height of the window whose hash, block or events cannot be fetched does
\* not abort the batch: every other height that is delivered has its block record
\* in the result, and the transactions built from it.
C21_FailedHeightDoesNotAbortBatch ==
  (fetched # NotFetched /\ chain.finalized) =>
    \A i \in 1..Len(fetched.requested) :
      LET n == fetched.requested[i]
          block == BlockAt(chain, n)
      IN  (block.hash /\ block.block /\ block.timestamp) =>
            /\ \E r \in 1..Len(fetched.blocks) : fetched.blocks[r].height = n
            /\ \A j \in 1..Len(Processed(block.extrinsics)) :
                 \E t \in 1..Len(fetched.transactions) :
                   fetched.transactions[t] = [blockNumber |-> n, index |-> j - 1]

\* the hash of the head is not resolved and the block at height 0 is not fetched:
\* the block between them is in the result with its transaction
C21_Witness ==
  /\ fetched # NotFetched
  /\ chain.finalized /\ chain.height = 2
  /\ chain.blocks[3] = NoHash
  /\ chain.blocks[2] = Block(<<"ok">>)
  /\ chain.blocks[1] = NoBlock
  /\ fetched.blocks = <<[height |-> 1, txCount |-> 1]>>
  /\ fetched.transactions = <<[blockNumber |-> 1, index |-> 0]>>

\* the delivered blocks of the window whose processing throws: at the timestamp or
\* the record, or at one of the extrinsics
FailedHeights ==
  {n \in 0..chain.height :
     /\ \E i \in 1..Len(fetched.requested) : fetched.requested[i] = n
     /\ BlockAt(chain, n).hash /\ BlockAt(chain, n).block
     /\ \/ ~BlockAt(chain, n).timestamp
        \/ \E j \in 1..Len(BlockAt(chain, n).extrinsics) :
             BlockAt(chain, n).extrinsics[j] = "bad"}

\* C22: a block whose processing throws is skipped as a unit: the result holds
\* neither a block record nor a transaction of that block.
C22_FailedBlockIsSkippedAsAUnit ==
  (fetched # NotFetched /\ chain.finalized) =>
    \A n \in FailedHeights :
      /\ \A r \in 1..Len(fetched.blocks) : fetched.blocks[r].height # n
      /\ \A t \in 1..Len(fetched.transactions) : fetched.transactions[t].blockNumber # n

\* the transactions of the delivered blocks of the window, all of them
WindowTransactions ==
  {[blockNumber |-> n, index |-> j - 1] :
     n \in {m \in 0..chain.height :
              /\ \E i \in 1..Len(fetched.requested) : fetched.requested[i] = m
              /\ BlockAt(chain, m).hash},
     j \in 1..MaxBlockSize} \cap
  {tx \in [blockNumber : 0..chain.height, index : 0..(MaxBlockSize - 1)] :
     tx.index < Len(BlockAt(chain, tx.blockNumber).extrinsics)}

\* C23: the returned list has at most 100 transactions, of the window's own, in
\* descending order of blockNumber; when the cap cuts, no transaction left out
\* is of a higher block than one that was kept.
C23_CappedAndSortedDescending ==
  (fetched # NotFetched /\ chain.finalized) =>
    LET kept == fetched.transactions
        keptSet == {kept[i] : i \in 1..Len(kept)}
    IN  /\ Len(kept) <= 100
        /\ Len(kept) = Min2(Cardinality(WindowTransactions), 100)
        /\ keptSet \subseteq WindowTransactions
        /\ Cardinality(keptSet) = Len(kept)
        /\ \A i \in 1..(Len(kept) - 1) : kept[i].blockNumber >= kept[i + 1].blockNumber
        /\ \A tx \in WindowTransactions \ keptSet :
             tx.blockNumber <= kept[Len(kept)].blockNumber

\* two blocks of 60 extrinsics: the cap cuts inside the lower block
C23_Witness ==
  /\ fetched # NotFetched
  /\ chain.height = 1
  /\ Len(fetched.transactions) = 100
  /\ fetched.transactions[60] = [blockNumber |-> 1, index |-> 59]
  /\ fetched.transactions[100] = [blockNumber |-> 0, index |-> 39]

\* the transfer events among the events of the extrinsic at index i of the
\* drawn block, stated on the phases of the block's events
OwnTransferEvents(i) ==
  LET own(e) == /\ e.phase = ApplyExtrinsic(i)
                /\ <<e.section, e.method>> \in
                     {<<"balances", "Transfer">>, <<"currencies", "Transferred">>,
                      <<"tokens", "Transfer">>, <<"assets", "Transferred">>}
  IN  SelectSeq(chain.events, own)

\* a positional data field of an event; a missing field reads as undefined
DataField(eventData, k) == IF k <= Len(eventData) THEN eventData[k] ELSE Undefined

\* the call is a transfer by its pallet and name
MatchesMethodHeuristic(extrinsic) == MethodRule(NoTransferInfo, extrinsic).isTransfer

\* C24: an extrinsic that matches the method-name heuristic and has a
\* Transfer-shaped event among its own events gets transferFrom, transferTo
\* and transferAmount from the first such event's positional data fields,
\* never from the signer and the call arguments.
C24_EventAlwaysWins ==
  fetched # NotFetched =>
    \A i \in 1..Len(chain.extrinsics) :
      (MatchesMethodHeuristic(chain.extrinsics[i]) /\ OwnTransferEvents(i - 1) # <<>>) =>
        LET data == OwnTransferEvents(i - 1)[1].data
            tx == fetched.transactions[i]
        IN  /\ tx.isTransfer
            /\ tx.transferFrom = DataField(data, 1)
            /\ tx.transferTo = DataField(data, 2)
            /\ tx.transferAmount = DataField(data, 3)

\* the events of the drawn block whose phase is ApplyExtrinsic(i)
OwnEvents(i) ==
  LET own(e) == e.phase = ApplyExtrinsic(i)
  IN  SelectSeq(chain.events, own)

\* the fields of a transaction that are derived from events
EventFields(tx) ==
  <<tx.success, tx.fee, tx.isTransfer, tx.transferFrom, tx.transferTo,
    tx.transferAmount, tx.transferAsset>>

\* C25: the extrinsic at index i succeeded iff no ExtrinsicFailed event has the
\* phase ApplyExtrinsic(i), and its success, fee and transfer fields are those
\* of the same block with every event of another extrinsic or of a
\* non-extrinsic phase removed.
C25_OnlyOwnEventsCount ==
  fetched # NotFetched =>
    \A i \in 1..Len(chain.extrinsics) :
      LET tx == fetched.transactions[i]
      IN  /\ tx.success <=>
               ~ \E k \in 1..Len(chain.events) :
                   /\ chain.events[k].phase = ApplyExtrinsic(i - 1)
                   /\ chain.events[k].section = "system"
                   /\ chain.events[k].method = "ExtrinsicFailed"
          /\ EventFields(tx) =
               EventFields(Transaction(chain.extrinsics[i], i - 1, OwnEvents(i - 1)))

\* extrinsic 1 failed and a transfer event was deposited outside the extrinsic
\* phases; extrinsic 0, whose call is no transfer, is reported as a success
\* that moved nothing and paid nothing
C25_Witness ==
  /\ fetched # NotFetched
  /\ Len(chain.extrinsics) = 2
  /\ ~ MatchesMethodHeuristic(chain.extrinsics[1])
  /\ \E k \in 1..Len(chain.events) :
       /\ chain.events[k].phase = ApplyExtrinsic(1)
       /\ chain.events[k].method = "ExtrinsicFailed"
  /\ \E k \in 1..Len(chain.events) :
       /\ chain.events[k].phase = Finalization
       /\ chain.events[k].method = "Transfer"
  /\ fetched.transactions[1].success
  /\ ~ fetched.transactions[1].isTransfer
  /\ fetched.transactions[1].fee = "0"
  /\ ~ fetched.transactions[2].success

\* the call is one of the six tagged staking calls
IsStakingCall(extrinsic) ==
  /\ extrinsic.section = "staking"
  /\ extrinsic.method \in {stakingMethods[k] : k \in 1..Len(stakingMethods)}

\* C26: for a staking bond / bondExtra / unbond / withdrawUnbonded / nominate /
\* chill call the staking step only replaces decodedData, tagged isStaking:
\* isTransfer, from, to and amount are what the method and event rules left,
\* so the call is flagged as a transfer only by a transfer event of its own.
C26_StakingTagLeavesTransferFields ==
  fetched # NotFetched =>
    \A i \in 1..Len(chain.extrinsics) :
      IsStakingCall(chain.extrinsics[i]) =>
        LET tx == fetched.transactions[i]
            left == EventRule(MethodRule(NoTransferInfo, chain.extrinsics[i]),
                              OwnEvents(i - 1))
        IN  /\ tx.isTransfer = left.isTransfer
            /\ tx.transferFrom = left.from
            /\ tx.transferTo = left.to
            /\ tx.transferAmount = left.amount
            /\ tx.isTransfer <=> OwnTransferEvents(i - 1) # <<>>
            /\ "isStaking" \in DOMAIN tx.decodedData
            /\ tx.decodedData.isStaking
            /\ tx.decodedData.method = chain.extrinsics[i].method

\* a staking.bond call with events of its own but no transfer event: tagged as
\* staking, not flagged as a transfer, no sender, recipient or amount
C26_Witness ==
  /\ fetched # NotFetched
  /\ IsStakingCall(chain.extrinsics[1])
  /\ chain.extrinsics[1].args # <<>>
  /\ OwnEvents(0) # <<>>
  /\ ~ fetched.transactions[1].isTransfer
  /\ fetched.transactions[1].transferAmount = Undefined
  /\ "isStaking" \in DOMAIN fetched.transactions[1].decodedData

\* the heights findByHash has to search: the finalized one and the 99 below it
SearchWindow == {n \in 0..chain.height : n >= chain.height - 99}

\* the heights of the window whose block holds an extrinsic with the hash the
\* input spells
MatchingHeights ==
  {n \in SearchWindow :
     LET block == SearchBlockAt(chain, n)
     IN  /\ block.hash
         /\ block.block
         /\ \E k \in 1..Len(block.extrinsics) : block.extrinsics[k] = chain.input.of}

\* the finalized head is known, the timer does not fire, and the hash, the
\* block and the events of every height of the window are delivered
SearchUndisturbed ==
  /\ chain.finalized
  /\ ~ chain.timedOut
  /\ \A n \in SearchWindow :
       SearchBlockAt(chain, n).hash /\ SearchBlockAt(chain, n).block

\* C27: an undisturbed search finds the transaction iff a block of the window
\* [max(0, H - 99), H] holds an extrinsic with the hash the input spells; the
\* record (isDecoded) describes the extrinsic of the highest such block; if no
\* block does, the result is null and every height of the window was examined.
C27_FoundIffInWindow ==
  (fetched # NotFetched /\ SearchUndisturbed) =>
    IF MatchingHeights # {}
      THEN /\ fetched.result.outcome = "found"
           /\ fetched.result.details.isDecoded
           /\ fetched.result.details.hash = <<"0", "x">> \o chain.input.of
           /\ fetched.result.details.blockNumber \in MatchingHeights
           /\ \A n \in MatchingHeights : n <= fetched.result.details.blockNumber
      ELSE /\ fetched.result.outcome = "null"
           /\ fetched.examined = SearchWindow

\* the chain is longer than the window, the hash is in the lowest block of the
\* window and in a block below the window: the record is the one of the window
C27_Witness ==
  /\ fetched # NotFetched
  /\ SearchUndisturbed
  /\ chain.height = 100
  /\ MatchingHeights = {1}
  /\ 0 \in DOMAIN chain.populated
  /\ chain.populated[0].hash
  /\ chain.populated[0].block
  /\ \E k \in 1..Len(chain.populated[0].extrinsics) :
       chain.populated[0].extrinsics[k] = chain.input.of
  /\ fetched.result.outcome = "found"
  /\ fetched.result.details.blockNumber = 1

\* C28: every spelling of one hash, with or without the hex prefix and in any
\* letter case of the prefix and of the digits, gets the result the spelling
\* searched for got.
C28_SpellingsGiveOneResult ==
  fetched # NotFetched =>
    \A other \in Spellings :
      other.of = chain.input.of =>
        findTransactionByHash(chain, other.text).result = fetched.result

\* the input is spelled with an upper-case prefix and upper-case digits, and
\* the transaction is found under its lower-case hash
C28_Witness ==
  /\ fetched # NotFetched
  /\ chain.input.text = <<"0", "X", "A", "B">>
  /\ fetched.result.outcome = "found"
  /\ fetched.result.details.hash = <<"0", "x", "a", "b">>

\* the store reports the outcome of a lookup that has just ended
ReportsOutcome(result) ==
  CASE result.outcome = "found" ->
         /\ transactionDetails' = result.details
         /\ detailsError' = NoError
    [] result.outcome = "null" -> detailsError' = NotFoundMessage
    [] OTHER -> detailsError' \notin {NoError, NotFoundMessage}

\* C29: a lookup ends, without throwing to its caller, in the report of its own
\* outcome: found (transactionDetails set, detailsError null), not found
\* (detailsError is the not-found message), or timeout / failure (detailsError
\* is another message); the call refused for want of a connection reports a
\* failure.
C29_LookupReportsItsOutcome ==
  [][/\ \A l \in Lookups, answers \in {HoldsTarget, HeadFails, TimesOut} :
          DetailsQueryReturns(l, answers) =>
            ReportsOutcome(findTransactionByHash(answers, lookups[l].hash).result)
     /\ \A l \in Lookups, hash \in DetailHashes :
          (FetchTransactionDetails(l, hash) /\ UNCHANGED lookups) =>
            detailsError' \notin {NoError, NotFoundMessage}]_vars

\* a reply, or a rejection, reaches the query of controller c
QuerySettles(c) ==
  /\ balanceQueries[c].pc \in {"system", "balances"}
  /\ balanceQueries'[c].pc # balanceQueries[c].pc

IsBalance(s) == s # <<>> /\ \A i \in 1..Len(s) : IsDigit(s[i])

\* the decimal digits of a balance without leading zeros, "0" for zero
RECURSIVE CanonicalDigits(_)
CanonicalDigits(s) ==
  IF Len(s) > 1 /\ Head(s) = "0" THEN CanonicalDigits(Tail(s))
  ELSE IF s = <<>> THEN <<"0">>
  ELSE s

\* floor(raw / 10^d) in decimal digits: the digits of raw without the last d
FloorOfQuotient(raw, d) ==
  CanonicalDigits(SubSeq(raw, 1, IF Len(raw) > d THEN Len(raw) - d ELSE 0))

\* raw mod 10^d in d digits: the last d digits of raw, zeros before them
RemainderPadded(raw, d) ==
  [i \in 1..d |-> IF i + Len(raw) - d >= 1 THEN raw[i + Len(raw) - d] ELSE "0"]

\* the first four digits of a fraction without the zeros they end in
RECURSIVE WithoutTrailingZeros(_)
WithoutTrailingZeros(s) ==
  IF s = <<>> THEN <<>>
  ELSE LET rest == WithoutTrailingZeros(Tail(s))
       IN  IF rest = <<>> /\ Head(s) = "0" THEN <<>> ELSE <<Head(s)>> \o rest
TruncatedFraction(raw, d) ==
  WithoutTrailingZeros([i \in 1..(IF d < 4 THEN d ELSE 4) |-> RemainderPadded(raw, d)[i]])

\* C31: for every non-negative integer raw balance and decimals d the compact
\* formatter returns floor(raw / 10^d), followed by "." and the first four
\* digits of raw mod 10^d (zero-padded to d digits, truncated, trailing zeros
\* stripped) where any of these is left; balances up to 2^128 keep every digit
\* of their integer part.
C31_CompactFormatIsExact ==
  (fetched.returned /\ fetched.variant = "compact" /\ IsBalance(chain.rawBalance)) =>
    LET whole == FloorOfQuotient(chain.rawBalance, chain.decimals)
        fraction == TruncatedFraction(chain.rawBalance, chain.decimals)
    IN  fetched.result =
          FormatReturns(IF fraction = <<>> THEN whole ELSE whole \o <<".">> \o fraction)

\* 2^128 with 18 decimals: 340282366920938463463.3746, the digits after 3746
\* cut off
C31_Witness ==
  /\ fetched.returned /\ fetched.variant = "compact"
  /\ IsBalance(chain.rawBalance) /\ Len(chain.rawBalance) = 39
  /\ chain.rawBalance[39] = "6" /\ chain.decimals = 18
  /\ fetched.result =
       FormatReturns(<<"3", "4", "0", "2", "8", "2", "3", "6", "6", "9", "2", "0", "9",
                       "3", "8", "4", "6", "3", "4", "6", "3", ".", "3", "7", "4", "6">>)

\* a string that is empty, spells zero or spells no non-negative integer
IsZeroOrMalformed(s) == ~ IsBalance(s) \/ \A i \in 1..Len(s) : s[i] = "0"

\* the canonical zero of a formatter
CanonicalZero(variant) == IF variant = "compact" THEN <<"0">> ELSE CanonicalZeroPadded

\* C32: neither formatter ever throws, and each returns its canonical zero
\* string for an input that is empty, zero or malformed.
C32_ZeroForEmptyZeroMalformed ==
  fetched.returned =>
    /\ ~ fetched.result.threw
    /\ IsZeroOrMalformed(chain.rawBalance) =>
         fetched.result = FormatReturns(CanonicalZero(fetched.variant))

\* C33: in every reachable state where status is 'connected' or 'degraded' the
\* store's api handle is not null and is the client created over the provider
\* that is open now: not a client whose provider was torn down, and not the
\* client of an earlier connection.
C33_ConnectedHasLiveApi ==
  status \in {"connected", "degraded"} =>
    /\ api # Null
    /\ api = currentProvider
    /\ api \in provOpen

\* C34: no reconnect timer is pending while status is 'connected' or
\* 'degraded'.
C34_NoTimerWhileConnected ==
  status \in {"connected", "degraded"} => ~ reconnectTimeout /\ timers = 0

\* C35 as stated: in every reachable state where status is 'error' and
\* connectionAttempts is below MAX_RETRIES, a reconnect timer is pending or a
\* connect() call is in flight.
C35_ErrorIsNeverStuck ==
  (status = "error" /\ apiState.connectionAttempts < MAX_RETRIES) =>
    \/ reconnectTimeout /\ timers > 0
    \/ InFlight # {}

\* a disconnect() or reconnect() call is between its cleanup and its reset of
\* the state
Disconnecting == QueuedDisconnects # {} \/ rc.pc # "idle"

\* C35: in every reachable state where status is 'error' and connectionAttempts
\* is below MAX_RETRIES, a reconnect timer is pending, a connect() call is in
\* flight, or the caller's disconnect() or reconnect() is in flight (it has
\* cleared the timer and resets the status when it resumes).
C35_ErrorHasRetryPendingUnlessDisconnecting ==
  (status = "error" /\ apiState.connectionAttempts < MAX_RETRIES /\ ~ Disconnecting) =>
    \/ reconnectTimeout /\ timers > 0
    \/ InFlight # {}

\* an established connection failed and only the timer stands for the retry
C35_Witness ==
  /\ status = "error" /\ apiState.connectionAttempts < MAX_RETRIES
  /\ ~ Disconnecting /\ InFlight = {}
  /\ api # Null
  /\ reconnectTimeout /\ timers > 0

\* C36: status never remains 'connecting' forever, every endpoint attempt
\* settling sooner or later: each time status is 'connecting' it is later
\* 'connected', 'error' or 'disconnected', whatever disconnect(), the provider
\* events and the timers do in between.
C36_ConnectingEnds ==
  (status = "connecting") ~> (status \in {"connected", "error", "disconnected"})

\* a connect() cycle has failed on every endpoint while status was 'connecting'
\* throughout
C36_Witness ==
  /\ status = "error" /\ apiState.lastError = AllFailed
  /\ InFlight = {}
  /\ apiState.connectionAttempts >= 2

\* C37: a successful connection restores the automatic-retry budget, so a
\* health-check probe that fails while status is 'connected' or 'degraded'
\* always leaves a reconnect timer armed.
C37_HealthFailureArmsTimer ==
  [][\A k \in Probes :
       (ProbeFails(k) /\ status \in {"connected", "degraded"}) =>
         reconnectTimeout' /\ timers' > 0
    ]_vars

LookupsInFlight == {l \in Lookups : lookups[l].pc # "idle"}

\* a fetchTransactionDetails call returns in this step: its query has settled,
\* or it was refused for want of a connection
LookupReturns ==
  \/ \E l \in Lookups, answers \in {HoldsTarget, HeadFails, TimesOut} :
       DetailsQueryReturns(l, answers)
  \/ \E l \in Lookups, hash \in DetailHashes :
       FetchTransactionDetails(l, hash) /\ UNCHANGED lookups

\* C39: whenever no fetchTransactionDetails call is in flight after at least
\* one has returned, isDetailsLoading is false: it is false when a call returns
\* and leaves none in flight, on every path, and it stays false until the next
\* call begins.
C39_LoadingEndsWithTheLastCall ==
  [][/\ (LookupReturns /\ LookupsInFlight' = {}) => ~ isDetailsLoading'
     /\ (LookupsInFlight = {} /\ LookupsInFlight' = {} /\ ~ isDetailsLoading)
          => ~ isDetailsLoading']_vars
====
